---- MODULE Spec2Model ----
(***************************************************************************)
(* Asura archive container codec, chunk scanner, RSFL/RSCF entry parsers   *)
(* and replacement engine of rs.py, as state machines over byte buffers.   *)
(* A buffer is a sequence of bytes (0..255); a Python offset o addresses   *)
(* element o+1 of the sequence.                                            *)
(***************************************************************************)
EXTENDS Integers, Sequences, FiniteSets, TLC

VARIABLES
    cpc,          \* codec round trip: position
    container,    \* codec round trip: the bytes read from disk
    unwrapped,    \* result of _unwrap_asura_container(container)
    newPayload,   \* payload handed to _wrap_asura_container
    wrapped,      \* result of _wrap_asura_container
    rewrapped,    \* result of _unwrap_asura_container(wrapped bytes)
    pc,           \* load / replace / reload: position
    source,       \* the archive bytes given to load_archive
    loaded,       \* result of load_archive(source)
    replacements, \* relative_path -> new payload
    updated,      \* the working bytearray of _apply_replacements
    entries,      \* the entry list _apply_replacements mutates
    idx,          \* position of the for loop over entries
    raised,       \* error raised by _apply_replacements
    before,       \* buffer and entries before the last replacement
    reloaded,     \* result of load_archive(updated)
    again,        \* result of a second _apply_replacements on the loaded buffer
    manifest,     \* the manifest handed to generate_patch_archive / read from disk
    patch,        \* result of generate_patch_archive
    patchLoaded,  \* result of load_archive on the patch bytes
    op,           \* file operation: "repack" or "patch"
    fpc,          \* file operation: position
    modified,     \* the files of the modified directory: relative path -> bytes
    mapping,      \* the archive file: read as "bytes", or a memory map
                  \* "unopened" / "open" / "closed"
    outputFile,   \* the output file: whether it exists, and its bytes
    failure,      \* the exception a file operation ended with
    scanPc,       \* chunk scan: position
    scanData,     \* chunk scan: the buffer given to _scan_for_rsfl
    scanCursor,   \* chunk scan: cursor of the while loop
    scanChunks,   \* chunk scan: rscf_chunks
    scanVisited,  \* chunk scan: the chunk headers the loop has read, in order
    scanResult,   \* chunk scan: what _scan_for_rsfl returned or raised
    parsePc,      \* RSCF parser: position
    parseData,    \* RSCF parser: the buffer given to _parse_rscf_entries
    parseChunk,   \* RSCF parser: chunk_info
    parsed,       \* RSCF parser: what _parse_rscf_entries returned or raised
    savePc,       \* save: position of save_patched_archive
    gui,          \* save: archive_bytes, all_entries, replacements, wrapper_info
    saveJob,      \* save: the locals of save_patched_archive and of the writer
    disk          \* save: the file at the output path

codecVars == <<cpc, container, unwrapped, newPayload, wrapped, rewrapped>>
engineVars == <<pc, source, loaded, replacements, updated, entries, idx, raised,
                before, reloaded>>
patchVars == <<manifest, patch, patchLoaded>>
fileVars == <<op, fpc, modified, mapping, outputFile, failure>>
scanVars == <<scanPc, scanData, scanCursor, scanChunks, scanVisited, scanResult>>
parseVars == <<parsePc, parseData, parseChunk, parsed>>
saveVars == <<savePc, gui, saveJob, disk>>
restVars == <<scanPc, scanData, scanCursor, scanChunks, scanVisited, scanResult,
              parsePc, parseData, parseChunk, parsed, savePc, gui, saveJob, disk>>
otherVars == <<again, manifest, patch, patchLoaded, op, fpc, modified, mapping, outputFile,
               failure, scanPc, scanData, scanCursor, scanChunks, scanVisited, scanResult,
               parsePc, parseData, parseChunk, parsed, savePc, gui, saveJob, disk>>
vars == <<cpc, container, unwrapped, newPayload, wrapped, rewrapped,
          pc, source, loaded, replacements, updated, entries, idx, raised,
          before, reloaded,
          again, manifest, patch, patchLoaded, op, fpc, modified, mapping, outputFile,
          failure, scanPc, scanData, scanCursor, scanChunks, scanVisited, scanResult,
          parsePc, parseData, parseChunk, parsed, savePc, gui, saveJob, disk>>

-----------------------------------------------------------------------------
(* Bounds of the model. *)

\* longest archive body (bytes after the signature) of a codec payload
MaxBody == 6
\* largest sub-chunk length a zbb container is cut into
MaxPiece == 3
\* most entries of an archive
MaxEntries == 2
\* replacement payloads are 0, 2, .. 2 * MaxHalfLen bytes long
MaxHalfLen == 3

-----------------------------------------------------------------------------
(* Byte-level helpers. *)

Max(a, b) == IF a >= b THEN a ELSE b
Min(a, b) == IF a <= b THEN a ELSE b

\* the value Python's None
None == -1

\* error kinds
NoError == "none"
RSFLParsingError == "RSFLParsingError"
StructError == "struct.error"
AttributeError == "AttributeError"

ASURA_MAGIC == <<65, 115, 117, 114, 97, 32, 32, 32>>
ASURA_ZLB_MAGIC == <<65, 115, 117, 114, 97, 90, 108, 98>>
ASURA_ZBB_MAGIC == <<65, 115, 117, 114, 97, 90, 98, 98>>

\* Python slicing b[s:e] for s, e >= 0: clamped to the buffer
Slice(b, s, e) ==
    LET lo == Min(s, Len(b))
        hi == Min(e, Len(b))
    IN  IF hi <= lo THEN <<>> ELSE SubSeq(b, lo + 1, hi)

\* b[s:]
SliceFrom(b, s) == Slice(b, s, Len(b))

\* struct.unpack_from("<I", b, off)[0]; the caller guards off + 4 <= len(b)
U32(b, off) ==
    b[off + 1] + 256 * b[off + 2] + 65536 * b[off + 3] + 16777216 * b[off + 4]

\* struct.pack("<I", v)
PackU32(v) ==
    <<v % 256, (v \div 256) % 256, (v \div 65536) % 256, (v \div 16777216) % 256>>

\* struct.pack_into(fmt, b, off, ...): overwrite Len(bs) bytes at offset off
PackInto(b, off, bs) ==
    [i \in 1..Len(b) |-> IF i > off /\ i <= off + Len(bs) THEN bs[i - off] ELSE b[i]]

\* bytearray slice assignment b[s:e] = bs
SliceAssign(b, s, e, bs) == Slice(b, 0, s) \o bs \o SliceFrom(b, Max(s, e))

\* b.startswith(p) / b[:len(p)] == p
StartsWith(b, p) == Slice(b, 0, Len(p)) = p

-----------------------------------------------------------------------------
(* zlib: the stream format with one stored block, which zlib.decompress    *)
(* accepts whatever level produced it.  Decompression inverts compression, *)
(* raises on a truncated or corrupt stream and ignores trailing bytes.     *)

\* the sums of d[lo..hi] and of the bytes weighted by the number of bytes
\* from each to the end of d, computed by halves
RECURSIVE AdlerSums(_, _, _)
AdlerSums(d, lo, hi) ==
    IF lo > hi THEN <<0, 0>>
    ELSE IF lo = hi THEN <<d[lo] % 65521, ((Len(d) - lo + 1) * d[lo]) % 65521>>
    ELSE LET mid == (lo + hi) \div 2
             l == AdlerSums(d, lo, mid)
             r == AdlerSums(d, mid + 1, hi)
         IN  <<(l[1] + r[1]) % 65521, (l[2] + r[2]) % 65521>>

\* Adler-32, big-endian: a = 1 + the sum of the bytes, b = the sum of the
\* running values of a, both modulo 65521
Adler32(d) ==
    LET s == AdlerSums(d, 1, Len(d))
        a == (1 + s[1]) % 65521
        b == (Len(d) + s[2]) % 65521
    IN  <<b \div 256, b % 256, a \div 256, a % 256>>

zlib_compress(d) ==
    <<120, 1, 1, Len(d) % 256, Len(d) \div 256,
      255 - (Len(d) % 256), 255 - (Len(d) \div 256)>> \o d \o Adler32(d)

zlib_decompress(s) ==
    IF Len(s) < 7 \/ s[1] # 120 \/ s[2] # 1 \/ s[3] # 1
       \/ s[6] # 255 - s[4] \/ s[7] # 255 - s[5]
    THEN [ok |-> FALSE, data |-> <<>>]
    ELSE LET n == s[4] + 256 * s[5]
         IN  IF Len(s) < 7 + n + 4 THEN [ok |-> FALSE, data |-> <<>>]
             ELSE LET d == Slice(s, 7, 7 + n)
                  IN  IF Slice(s, 7 + n, 7 + n + 4) # Adler32(d)
                      THEN [ok |-> FALSE, data |-> <<>>]
                      ELSE [ok |-> TRUE, data |-> d]

-----------------------------------------------------------------------------
(* ContainerCodec: _unwrap_asura_container and _wrap_asura_container.      *)

UnwrapError(msg) ==
    [err |-> RSFLParsingError, msg |-> msg, payload |-> <<>>, wrapper |-> [kind |-> "none"]]

\* a size check that lets a decompressed chunk be shorter than declared
ZbbSizeMismatchLonger(chunk_size, actual) == chunk_size # 0 /\ actual > chunk_size

\* if chunk_size and len(chunk_data) != chunk_size
ZbbSizeMismatch(chunk_size, actual) == chunk_size # 0 /\ actual # chunk_size

\* the while loop of the AsuraZbb branch
RECURSIVE ZbbUnwrapLoop(_, _, _, _, _)
ZbbUnwrapLoop(data, cursor, output, chunk_sizes, total_size) ==
    IF cursor + 8 > Len(data)
    THEN [err |-> NoError, msg |-> "", output |-> output, chunk_sizes |-> chunk_sizes]
    ELSE
      LET chunk_compressed == U32(data, cursor)
          chunk_size == U32(data, cursor + 4)
          c2 == cursor + 8
          chunk_payload == Slice(data, c2, c2 + chunk_compressed)
          z == zlib_decompress(chunk_payload)
          out2 == output \o z.data
          sizes2 == Append(chunk_sizes, Len(z.data))
      IN  IF chunk_compressed = 0
          THEN [err |-> NoError, msg |-> "", output |-> output,
                chunk_sizes |-> chunk_sizes]
          ELSE IF Len(chunk_payload) # chunk_compressed
          THEN [err |-> RSFLParsingError, msg |-> "truncated AsuraZbb chunk payload",
                output |-> <<>>, chunk_sizes |-> <<>>]
          ELSE IF ~z.ok
          THEN [err |-> RSFLParsingError, msg |-> "failed to decompress AsuraZbb chunk",
                output |-> <<>>, chunk_sizes |-> <<>>]
          ELSE IF ZbbSizeMismatch(chunk_size, Len(z.data))
          THEN [err |-> RSFLParsingError,
                msg |-> "decompressed chunk size does not match the value stored in the header",
                output |-> <<>>, chunk_sizes |-> <<>>]
          ELSE IF total_size # 0 /\ Len(out2) >= total_size
          THEN [err |-> NoError, msg |-> "", output |-> out2, chunk_sizes |-> sizes2]
          ELSE ZbbUnwrapLoop(data, c2 + chunk_compressed, out2, sizes2, total_size)

\* the payload the AsuraZlb branch hands to zlib.decompress
ZlbStream(data) ==
    LET compressed_size == U32(data, 12)
        payload == SliceFrom(data, 20)
    IN  IF compressed_size # 0 /\ compressed_size <= Len(payload)
        THEN Slice(payload, 0, compressed_size)
        ELSE payload

\* the header's expected_size kept as stored
ZlbExpectedSizeStored(expected_size, actual) == expected_size

\* if expected_size and len(uncompressed) != expected_size:
\*     expected_size = len(uncompressed)
ZlbExpectedSize(expected_size, actual) ==
    IF expected_size # 0 /\ actual # expected_size THEN actual ELSE expected_size

_unwrap_asura_container(data) ==
    IF StartsWith(data, ASURA_MAGIC)
    THEN [err |-> NoError, msg |-> "", payload |-> data, wrapper |-> [kind |-> "raw"]]
    ELSE IF StartsWith(data, ASURA_ZLB_MAGIC)
    THEN IF Len(data) < 20 THEN UnwrapError("truncated AsuraZlb header")
         ELSE LET unknown == U32(data, 8)
                  expected_size == U32(data, 16)
                  z == zlib_decompress(ZlbStream(data))
              IN  IF ~z.ok THEN UnwrapError("failed to decompress AsuraZlb archive")
                  ELSE [err |-> NoError, msg |-> "", payload |-> z.data,
                        wrapper |-> [kind |-> "zlb", unknown |-> unknown,
                                     expected_size |->
                                        ZlbExpectedSize(expected_size, Len(z.data))]]
    ELSE IF StartsWith(data, ASURA_ZBB_MAGIC)
    THEN IF Len(data) < 16 THEN UnwrapError("truncated AsuraZbb header")
         ELSE LET total_size == U32(data, 12)
                  r == ZbbUnwrapLoop(data, 16, <<>>, <<>>, total_size)
              IN  IF r.err # NoError THEN UnwrapError(r.msg)
                  ELSE [err |-> NoError, msg |-> "", payload |-> r.output,
                        wrapper |-> [kind |-> "zbb", chunk_sizes |-> r.chunk_sizes,
                                     total_size |->
                                        IF total_size # 0 /\ Len(r.output) # total_size
                                        THEN Len(r.output) ELSE total_size]]
    ELSE UnwrapError("unsupported Asura container wrapper")

\* struct.pack("<8sIII", ASURA_ZLB_MAGIC, unknown, len(compressed), len(data))
ZlbHeaderSwapped(unknown, compressed_len, data_len) ==
    ASURA_ZLB_MAGIC \o PackU32(unknown) \o PackU32(data_len) \o PackU32(compressed_len)

ZlbHeader(unknown, compressed_len, data_len) ==
    ASURA_ZLB_MAGIC \o PackU32(unknown) \o PackU32(compressed_len) \o PackU32(data_len)

\* a size hint that starts the list again once it is exhausted
ZbbSizeHintCycling(chunk_sizes, size_index, default_size, data_len) ==
    LET size_hint == chunk_sizes[(size_index % Len(chunk_sizes)) + 1]
    IN  IF size_hint <= 0
        THEN (IF default_size # 0 THEN default_size ELSE data_len)
        ELSE size_hint

\* the size hint of one iteration of the AsuraZbb wrap loop
ZbbSizeHint(chunk_sizes, size_index, default_size, data_len) ==
    LET size_hint == IF size_index < Len(chunk_sizes)
                     THEN chunk_sizes[size_index + 1] ELSE default_size
    IN  IF size_hint <= 0
        THEN (IF default_size # 0 THEN default_size ELSE data_len)
        ELSE size_hint

\* the while loop of the AsuraZbb wrap branch
RECURSIVE ZbbWrapLoop(_, _, _, _, _, _, _)
ZbbWrapLoop(data, chunk_sizes, default_size, cursor, size_index, payload, total_compressed) ==
    IF cursor >= Len(data)
    THEN [payload |-> payload, total_compressed |-> total_compressed]
    ELSE LET size_hint == ZbbSizeHint(chunk_sizes, size_index, default_size, Len(data))
             end == Min(Len(data), cursor + size_hint)
             chunk == Slice(data, cursor, end)
             compressed_chunk == zlib_compress(chunk)
         IN  ZbbWrapLoop(data, chunk_sizes, default_size, end, size_index + 1,
                         payload \o PackU32(Len(compressed_chunk)) \o PackU32(Len(chunk))
                                 \o compressed_chunk,
                         total_compressed + Len(compressed_chunk))

_wrap_asura_container(data, wrapper) ==
    IF wrapper.kind = "raw" THEN [err |-> NoError, bytes |-> data]
    ELSE IF wrapper.kind = "zlb"
    THEN LET compressed == zlib_compress(data)
         IN  [err |-> NoError,
              bytes |-> ZlbHeader(wrapper.unknown, Len(compressed), Len(data))
                        \o compressed]
    ELSE IF wrapper.kind = "zbb"
    THEN LET chunk_sizes == IF wrapper.chunk_sizes = <<>> THEN <<Len(data)>>
                            ELSE wrapper.chunk_sizes
             default_size == chunk_sizes[Len(chunk_sizes)]
             r == ZbbWrapLoop(data, chunk_sizes, default_size, 0, 0, <<>>, 0)
         IN  [err |-> NoError,
              bytes |-> ASURA_ZBB_MAGIC \o PackU32(r.total_compressed)
                        \o PackU32(Len(data)) \o r.payload]
    ELSE [err |-> RSFLParsingError, bytes |-> <<>>]

-----------------------------------------------------------------------------
(* ChunkScanner, EntryTableParser and ResourceChunkParser.                 *)

TAG_LFSR == <<76, 70, 83, 82>>
TAG_RSCF == <<82, 83, 67, 70>>
\* 0x5246534C
RSFL_INNER_MAGIC == 1380340556
\* CHUNK_HEADER.size, RSFL_CHUNK_HEADER.size, RSFL_ENTRY_STRUCT.size
CHUNK_HEADER_SIZE == 16
RSFL_CHUNK_HEADER_SIZE == 20
RSFL_ENTRY_STRUCT_SIZE == 12

\* the cursor after the while loop of _read_padded_string, None when the loop
\* ends without a NUL (the while's else branch)
RECURSIVE PaddedStringEnd(_, _)
PaddedStringEnd(data, cursor) ==
    IF cursor >= Len(data) THEN None
    ELSE IF \E i \in (cursor + 1)..Min(cursor + 4, Len(data)) : data[i] = 0
         THEN cursor + 4
         ELSE PaddedStringEnd(data, cursor + 4)

\* raw.split(b"\x00", 1)[0] for the bytes starting at 1-based index i
RECURSIVE UpToNul(_, _)
UpToNul(data, i) ==
    IF i > Len(data) \/ data[i] = 0 THEN <<>>
    ELSE <<data[i]>> \o UpToNul(data, i + 1)

\* names are kept as their bytes (decoding is one-to-one on the ASCII bytes used)
_read_padded_string(data, offset) ==
    LET e == PaddedStringEnd(data, offset)
    IN  IF e = None
        THEN [err |-> RSFLParsingError,
              msg |-> "unterminated padded string inside RSFL table",
              text |-> <<>>, consumed |-> 0]
        ELSE [err |-> NoError, msg |-> "", text |-> UpToNul(data, offset + 1),
              consumed |-> e - offset]

RECURSIVE LStripSlash(_)
LStripSlash(name) ==
    IF name # <<>> /\ name[1] = 47 THEN LStripSlash(Tail(name)) ELSE name

normalize_relative_path(name) ==
    LStripSlash([i \in 1..Len(name) |-> IF name[i] = 92 THEN 47 ELSE name[i]])

ScanError(kind, msg) == [err |-> kind, msg |-> msg, layout |-> "none", chunks |-> <<>>]

\* the while loop of _scan_for_rsfl
RECURSIVE ScanLoop(_, _, _)
ScanLoop(data, cursor, rscf_chunks) ==
    IF cursor + CHUNK_HEADER_SIZE > Len(data)
    THEN IF rscf_chunks # <<>>
         THEN [err |-> NoError, msg |-> "", layout |-> "rscf", chunks |-> rscf_chunks]
         ELSE ScanError(RSFLParsingError, "unable to locate RS controlled chunks")
    ELSE
      LET magic == Slice(data, cursor, cursor + 4)
          size == U32(data, cursor + 4)
          type1 == U32(data, cursor + 8)
          type2 == U32(data, cursor + 12)
          header_end == cursor + 16
      IN  IF size = 0
          THEN ScanError(RSFLParsingError, "encountered zero-sized chunk while scanning")
          ELSE IF magic = TAG_LFSR
          THEN IF header_end + RSFL_CHUNK_HEADER_SIZE > Len(data)
               THEN ScanError(StructError, "unpack_from requires a buffer of at least 20 bytes")
               ELSE IF U32(data, header_end) # RSFL_INNER_MAGIC
               THEN ScanError(RSFLParsingError, "corrupted RSFL inner header")
               ELSE [err |-> NoError, msg |-> "", layout |-> "rsfl",
                     chunks |-> <<[offset |-> cursor, chunk_size |-> size,
                                   type1 |-> type1, type2 |-> type2,
                                   rsfl |-> [inner_size |-> U32(data, header_end + 4),
                                             type1 |-> U32(data, header_end + 8),
                                             type2 |-> U32(data, header_end + 12),
                                             entry_count |-> U32(data, header_end + 16)]]>>]
          ELSE IF magic = TAG_RSCF
          THEN IF header_end + 12 > Len(data)
               THEN ScanError(RSFLParsingError, "truncated RSCF header")
               ELSE ScanLoop(data, cursor + size,
                             Append(rscf_chunks,
                                    [offset |-> cursor, chunk_size |-> size,
                                     type1 |-> type1, type2 |-> type2,
                                     rscf |-> [version |-> U32(data, header_end),
                                               data_offset |-> U32(data, header_end + 4),
                                               data_span |-> U32(data, header_end + 8)]]))
          ELSE ScanLoop(data, cursor + size, rscf_chunks)

_scan_for_rsfl(data) ==
    IF ~StartsWith(data, ASURA_MAGIC)
    THEN ScanError(RSFLParsingError, "file is not an Asura archive")
    ELSE ScanLoop(data, Len(ASURA_MAGIC), <<>>)

\* the for loop of _parse_rsfl_entries, `remaining` iterations left
RECURSIVE ParseRsflLoop(_, _, _, _)
ParseRsflLoop(data, cursor, remaining, acc) ==
    IF remaining = 0 THEN [err |-> NoError, msg |-> "", entries |-> acc, cursor |-> cursor]
    ELSE LET s == _read_padded_string(data, cursor)
             c2 == cursor + s.consumed
         IN  IF s.err # NoError
             THEN [err |-> s.err, msg |-> s.msg, entries |-> <<>>, cursor |-> cursor]
             ELSE IF c2 + RSFL_ENTRY_STRUCT_SIZE > Len(data)
             THEN [err |-> StructError,
                   msg |-> "unpack_from requires a buffer of at least 12 bytes",
                   entries |-> <<>>, cursor |-> c2]
             ELSE ParseRsflLoop(data, c2 + RSFL_ENTRY_STRUCT_SIZE, remaining - 1,
                                Append(acc, [name |-> s.text,
                                             raw_offset |-> U32(data, c2),
                                             size |-> U32(data, c2 + 4),
                                             unk |-> U32(data, c2 + 8),
                                             table_offset |-> c2]))

_parse_rsfl_entries(data, rsfl_offset, rsfl_chunk_size, entry_count) ==
    ParseRsflLoop(data, rsfl_offset + 16 + RSFL_CHUNK_HEADER_SIZE, entry_count, <<>>)

\* candidate_offsets with the chunk-end candidate registered first
RscfCandidatesEndFirst(string_end, data_offset, data_span, chunk_end) ==
    LET c1 == <<chunk_end - data_span>>
        masked_offset == data_offset % 16777216
        c2 == IF string_end + data_offset # c1[1]
              THEN Append(c1, string_end + data_offset) ELSE c1
    IN  IF \E i \in 1..Len(c2) : c2[i] = string_end + masked_offset THEN c2
        ELSE Append(c2, string_end + masked_offset)

\* candidate_offsets after the three _register_candidate calls
RscfCandidates(string_end, data_offset, data_span, chunk_end) ==
    LET c1 == <<string_end + data_offset>>
        masked_offset == data_offset % 16777216
        c2 == IF masked_offset # data_offset /\ string_end + masked_offset # c1[1]
              THEN Append(c1, string_end + masked_offset) ELSE c1
        last == chunk_end - data_span
    IN  IF \E i \in 1..Len(c2) : c2[i] = last THEN c2 ELSE Append(c2, last)

\* whether the for loop over candidate_offsets accepts a candidate
RscfCandidateFitsBuffer(candidate, string_end, data_span, chunk_end, data_length) ==
    /\ candidate >= string_end
    /\ candidate + data_span <= data_length

RscfCandidateFits(candidate, string_end, data_span, chunk_end, data_length) ==
    /\ candidate >= string_end
    /\ candidate + data_span <= chunk_end
    /\ candidate + data_span <= data_length

_parse_rscf_entries(data, chunk_info) ==
    LET chunk_offset == chunk_info.offset
        chunk_size == chunk_info.chunk_size
        header_offset == chunk_offset + 16
        version == chunk_info.rscf.version
        data_offset == chunk_info.rscf.data_offset
        data_span == chunk_info.rscf.data_span
        string_offset == header_offset + 12
        s == _read_padded_string(data, string_offset)
        string_end == string_offset + s.consumed
        chunk_end == chunk_offset + chunk_size
        cands == RscfCandidates(string_end, data_offset, data_span, chunk_end)
        fits == {i \in 1..Len(cands) :
                    RscfCandidateFits(cands[i], string_end, data_span, chunk_end, Len(data))}
    IN  IF header_offset + 12 > Len(data)
        THEN [err |-> RSFLParsingError, msg |-> "truncated RSCF chunk header",
              entries |-> <<>>]
        ELSE IF s.err # NoError
        THEN [err |-> s.err, msg |-> s.msg, entries |-> <<>>]
        ELSE IF fits = {}
        THEN [err |-> RSFLParsingError, msg |-> "RSCF payload exceeds chunk bounds",
              entries |-> <<>>]
        ELSE LET payload_offset == cands[CHOOSE i \in fits : \A j \in fits : i <= j]
             IN  [err |-> NoError, msg |-> "",
                  entries |-> <<[layout |-> "rscf",
                                 name |-> s.text,
                                 relative_path |-> normalize_relative_path(s.text),
                                 offset |-> payload_offset,
                                 size |-> data_span,
                                 raw_offset |-> None,
                                 table_offset |-> None,
                                 offset_anchor |-> payload_offset,
                                 anchor_kind |-> "absolute",
                                 chunk_offset |-> chunk_offset,
                                 chunk_size |-> chunk_size,
                                 header_offset |-> header_offset,
                                 header_version |-> version,
                                 header_data_offset |-> data_offset,
                                 header_data_span |-> data_span]>>]

ResolveUnchecked(raw_offset, size, data_length, rsfl_offset, rsfl_chunk_size) ==
    [err |-> NoError, msg |-> "",
     offset |-> IF raw_offset + rsfl_chunk_size + size > data_length
                THEN raw_offset + rsfl_offset ELSE raw_offset + rsfl_chunk_size]

_resolve_entry_offset(raw_offset, size, data_length, rsfl_offset, rsfl_chunk_size) ==
    LET first == raw_offset + rsfl_chunk_size
        offset_relative == IF first + size > data_length
                           THEN raw_offset + rsfl_offset ELSE first
    IN  IF offset_relative + size > data_length
        THEN [err |-> RSFLParsingError, msg |-> "entry points outside of archive bounds",
              offset |-> None]
        ELSE [err |-> NoError, msg |-> "", offset |-> offset_relative]

\* the for loop of _normalise_entries from entry i on
RECURSIVE NormaliseLoop(_, _, _, _, _, _)
NormaliseLoop(raw_entries, i, data_length, rsfl_offset, rsfl_chunk_size, acc) ==
    IF i > Len(raw_entries) THEN [err |-> NoError, msg |-> "", entries |-> acc]
    ELSE LET entry == raw_entries[i]
             r == _resolve_entry_offset(entry.raw_offset, entry.size, data_length,
                                        rsfl_offset, rsfl_chunk_size)
             chunk_end == rsfl_offset + rsfl_chunk_size
             offset_anchor == r.offset - entry.raw_offset
         IN  IF r.err # NoError THEN [err |-> r.err, msg |-> r.msg, entries |-> <<>>]
             ELSE NormaliseLoop(raw_entries, i + 1, data_length, rsfl_offset,
                                rsfl_chunk_size,
                                Append(acc,
                                       [name |-> entry.name,
                                        relative_path |-> normalize_relative_path(entry.name),
                                        offset |-> r.offset,
                                        size |-> entry.size,
                                        unk |-> entry.unk,
                                        raw_offset |-> entry.raw_offset,
                                        table_offset |-> entry.table_offset,
                                        offset_anchor |-> offset_anchor,
                                        anchor_kind |->
                                            IF offset_anchor = chunk_end THEN "chunk_end"
                                            ELSE IF offset_anchor = rsfl_offset
                                            THEN "chunk_start" ELSE "absolute",
                                        layout |-> "rsfl"]))

_normalise_entries(raw_entries, data, rsfl_offset, rsfl_chunk_size) ==
    NormaliseLoop(raw_entries, 1, Len(data), rsfl_offset, rsfl_chunk_size, <<>>)

LoadError(kind, msg) ==
    [err |-> kind, msg |-> msg, data |-> <<>>, chunk_info |-> [layout |-> "none"],
     entries |-> <<>>, wrapper |-> [kind |-> "none"]]

\* the for loop over the RSCF chunks in load_archive
RECURSIVE LoadRscfLoop(_, _, _, _, _)
LoadRscfLoop(data, chunks, i, ents, infos) ==
    IF i > Len(chunks) THEN [err |-> NoError, msg |-> "", entries |-> ents, chunks |-> infos]
    ELSE LET r == _parse_rscf_entries(data, chunks[i])
         IN  IF r.err # NoError
             THEN [err |-> r.err, msg |-> r.msg, entries |-> <<>>, chunks |-> <<>>]
             ELSE LoadRscfLoop(data, chunks, i + 1, ents \o r.entries,
                               Append(infos, [offset |-> chunks[i].offset,
                                              chunk_size |-> chunks[i].chunk_size,
                                              type1 |-> chunks[i].type1,
                                              type2 |-> chunks[i].type2,
                                              header |-> chunks[i].rscf]))

\* load_archive, the rsfl branch once the table is parsed and normalised
LoadRsflEntries(u, chunk, t, n) ==
    IF n.err # NoError THEN LoadError(n.err, n.msg)
    ELSE [err |-> NoError, msg |-> "", data |-> u.payload,
          chunk_info |-> [layout |-> "rsfl", offset |-> chunk.offset,
                          chunk_size |-> chunk.chunk_size,
                          type1 |-> chunk.rsfl.type1,
                          type2 |-> chunk.rsfl.type2,
                          table_end |-> t.cursor,
                          entry_count |-> chunk.rsfl.entry_count],
          entries |-> n.entries, wrapper |-> u.wrapper]

LoadRsflTable(u, chunk, t) ==
    IF t.err # NoError THEN LoadError(t.err, t.msg)
    ELSE LoadRsflEntries(u, chunk, t,
                         _normalise_entries(t.entries, u.payload, chunk.offset,
                                            chunk.chunk_size))

\* load_archive, the rscf branch once every chunk is parsed
LoadRscfEntries(u, r) ==
    IF r.err # NoError THEN LoadError(r.err, r.msg)
    ELSE [err |-> NoError, msg |-> "", data |-> u.payload,
          chunk_info |-> [layout |-> "rscf", chunks |-> r.chunks],
          entries |-> r.entries, wrapper |-> u.wrapper]

\* load_archive after the chunk scan
LoadScanned(u, layout_info) ==
    IF layout_info.err # NoError THEN LoadError(layout_info.err, layout_info.msg)
    ELSE IF layout_info.layout = "rsfl"
    THEN LoadRsflTable(u, layout_info.chunks[1],
                       _parse_rsfl_entries(u.payload, layout_info.chunks[1].offset,
                                           layout_info.chunks[1].chunk_size,
                                           layout_info.chunks[1].rsfl.entry_count))
    ELSE LoadRscfEntries(u, LoadRscfLoop(u.payload, layout_info.chunks, 1, <<>>, <<>>))

\* load_archive after the unwrap
LoadUnwrapped(u) ==
    IF u.err # NoError THEN LoadError(u.err, u.msg)
    ELSE LoadScanned(u, _scan_for_rsfl(u.payload))

\* load_archive on the bytes read from the archive path
load_archive(original_bytes) ==
    LoadUnwrapped(_unwrap_asura_container(original_bytes))

-----------------------------------------------------------------------------
(* ReplacementEngine: one iteration of the for loop of _apply_replacements *)
(* for an entry that has a replacement payload.  A result carries the      *)
(* buffer and the entry list as the iteration leaves them, also when it    *)
(* raises: the entry dictionaries are the caller's and are changed in      *)
(* place.                                                                  *)

Zeros(n) == [i \in 1..n |-> 0]

\* whether the sibling loop of the RSCF branch shifts `other`
RscfFollowsAll(other, chunk_offset) ==
    /\ other.layout = "rscf"
    /\ other.chunk_offset # None

RscfFollows(other, chunk_offset) ==
    /\ other.layout = "rscf"
    /\ other.chunk_offset # None
    /\ ~(other.chunk_offset <= chunk_offset)

\* the sibling's chunk moves but its payload offset is left behind
RscfShiftChunkOnly(other, delta) ==
    [other EXCEPT !.chunk_offset = @ + delta,
                  !.header_offset = IF @ # None THEN @ + delta ELSE @]

\* the body of the sibling loop
RscfShift(other, delta) ==
    [other EXCEPT !.chunk_offset = @ + delta,
                  !.offset = IF @ # None THEN @ + delta ELSE @,
                  !.offset_anchor = IF @ # None THEN @ + delta ELSE @,
                  !.header_offset = IF @ # None THEN @ + delta ELSE @]

\* new_chunk_size = entry["chunk_size"] + delta
RscfNewChunkSizeKept(chunk_size, delta) == chunk_size

RscfNewChunkSize(chunk_size, delta) == chunk_size + delta

\* if new_chunk_size <= 0: raise
RscfChunkGoneNegative(new_chunk_size) == new_chunk_size < 0

RscfChunkGone(new_chunk_size) == new_chunk_size <= 0

\* the payload and the size are written before the metadata is looked at
RscfMissingMetadataLate(buf, ents, i, payload) ==
    [err |-> RSFLParsingError, msg |-> "missing chunk metadata",
     updated |-> SliceAssign(buf, ents[i].offset, ents[i].offset + ents[i].size,
                             payload),
     entries |-> [ents EXCEPT ![i].size = Len(payload)]]

\* if chunk_offset is None or header_offset is None: raise RSFLParsingError,
\* the first statement of the RSCF branch
RscfMissingMetadata(buf, ents, i, payload) ==
    [err |-> RSFLParsingError, msg |-> "missing chunk metadata",
     updated |-> buf, entries |-> ents]

RscfReplace(buf, ents, i, payload) ==
    LET entry == ents[i]
        new_size == Len(payload)
        start == entry.offset
        end == start + entry.size
        chunk_offset == entry.chunk_offset
        header_offset == entry.header_offset
        delta == new_size - entry.size
        b1 == SliceAssign(buf, start, end, payload)
        b2 == PackInto(b1, header_offset + 8, PackU32(new_size))
        e1 == [entry EXCEPT !.offset = start, !.size = new_size,
                            !.header_data_span = new_size]
        new_chunk_size == RscfNewChunkSize(entry.chunk_size, delta)
        b3 == PackInto(b2, chunk_offset + 4, PackU32(new_chunk_size))
    IN  IF chunk_offset = None \/ header_offset = None
        THEN RscfMissingMetadata(buf, ents, i, payload)
        ELSE IF delta = 0
        THEN [err |-> NoError, msg |-> "", updated |-> b2,
              entries |-> [ents EXCEPT ![i] = e1]]
        ELSE IF RscfChunkGone(new_chunk_size)
        THEN [err |-> RSFLParsingError,
              msg |-> "would shrink the RSCF chunk below zero bytes",
              updated |-> b2, entries |-> [ents EXCEPT ![i] = e1]]
        ELSE [err |-> NoError, msg |-> "", updated |-> b3,
              entries |-> [j \in 1..Len(ents) |->
                             IF j = i THEN [e1 EXCEPT !.chunk_size = new_chunk_size]
                             ELSE IF RscfFollows(ents[j], chunk_offset)
                             THEN RscfShift(ents[j], delta)
                             ELSE ents[j]]]

\* padding = (-len(updated)) % 4
RsflPaddingNone(length) == 0

RsflPadding(length) == (4 - (length % 4)) % 4

\* raw_offset = new_offset - anchor
RsflRawOffsetMagnitude(new_offset, anchor) ==
    IF new_offset >= anchor THEN new_offset - anchor ELSE anchor - new_offset

RsflRawOffset(new_offset, anchor) == new_offset - anchor

\* the buffer after the payload is written: in place when the size is kept,
\* appended after the padding otherwise
RsflWriteAlwaysAppend(buf, entry, payload) ==
    buf \o Zeros(RsflPadding(Len(buf))) \o payload

RsflWrite(buf, entry, payload) ==
    IF Len(payload) = entry.size
    THEN SliceAssign(buf, entry.offset, entry.offset + entry.size, payload)
    ELSE buf \o Zeros(RsflPadding(Len(buf))) \o payload

RsflReplace(buf, ents, i, payload) ==
    LET entry == ents[i]
        new_size == Len(payload)
        b1 == RsflWrite(buf, entry, payload)
        new_offset == IF new_size = entry.size THEN entry.offset
                      ELSE Len(b1) - new_size
        raw_offset == RsflRawOffset(new_offset, entry.offset_anchor)
    IN  IF raw_offset < 0
        THEN [err |-> RSFLParsingError, msg |-> "would produce a negative offset",
              updated |-> b1, entries |-> ents]
        ELSE IF raw_offset \div 65536 > 65535
        THEN [err |-> RSFLParsingError, msg |-> "exceeds 32-bit offset capacity",
              updated |-> b1, entries |-> ents]
        ELSE [err |-> NoError, msg |-> "",
              updated |-> PackInto(b1, entry.table_offset,
                                   PackU32(raw_offset) \o PackU32(new_size)
                                   \o PackU32(entry.unk)),
              entries |-> [ents EXCEPT ![i] = [entry EXCEPT !.offset = new_offset,
                                                            !.size = new_size,
                                                            !.raw_offset = raw_offset]]]

\* entry.get("layout", "rsfl") selects the branch
ReplaceEntry(buf, ents, i, payload) ==
    IF ents[i].layout = "rscf" THEN RscfReplace(buf, ents, i, payload)
    ELSE RsflReplace(buf, ents, i, payload)

\* _apply_replacements from entry i on: the for loop over the entries, which
\* an exception leaves with the entry dictionaries as changed so far
RECURSIVE ApplyLoop(_, _, _, _)
RECURSIVE ApplyContinue(_, _, _)
ApplyContinue(r, i, resolved_replacements) ==
    IF r.err # NoError THEN r
    ELSE ApplyLoop(r.updated, r.entries, i + 1, resolved_replacements)

ApplyLoop(buf, ents, i, resolved_replacements) ==
    IF i > Len(ents)
    THEN [err |-> NoError, msg |-> "", updated |-> buf, entries |-> ents]
    ELSE IF ents[i].relative_path \notin DOMAIN resolved_replacements
    THEN ApplyLoop(buf, ents, i + 1, resolved_replacements)
    ELSE ApplyContinue(ReplaceEntry(buf, ents, i,
                                    resolved_replacements[ents[i].relative_path]),
                       i, resolved_replacements)

\* updated = bytearray(archive_bytes): the loop works on a copy of the buffer
_apply_replacements(archive_bytes, ents, resolved_replacements) ==
    ApplyLoop(archive_bytes, ents, 1, resolved_replacements)

-----------------------------------------------------------------------------
(* Patch archives: generate_patch_archive collects the replacements that   *)
(* differ from the loaded archive and writes them as a raw archive of the  *)
(* same layout.                                                            *)

\* dict.get on an index that is missing the key
NoEntry == [layout |-> "none"]

\* {entry.get("relative_path"): entry for entry in ents}.get(rel_path): the
\* last entry of a path is the one the dictionary keeps
RECURSIVE IndexGet(_, _, _)
IndexGet(ents, i, rel_path) ==
    IF i = 0 THEN NoEntry
    ELSE IF ents[i].relative_path = rel_path THEN ents[i]
    ELSE IndexGet(ents, i - 1, rel_path)

\* rel_path.replace("/", "\\")
ToBackslashes(rel_path) ==
    [i \in 1..Len(rel_path) |-> IF rel_path[i] = 47 THEN 92 ELSE rel_path[i]]

\* the stored name, NUL-terminated and padded to a multiple of 4
EncodedNameUnpadded(manifest_entry) == manifest_entry.name \o <<0>>

EncodedName(manifest_entry) ==
    LET name == IF manifest_entry.name # <<>> THEN manifest_entry.name
                ELSE ToBackslashes(manifest_entry.relative_path)
    IN  name \o Zeros(4 - (Len(name) % 4))

\* the chunk offsets _extract_chunk_type_overrides looks at
OverrideKeys(layout_info) ==
    IF layout_info.layout = "rscf"
    THEN {layout_info.chunks[i].offset : i \in 1..Len(layout_info.chunks)}
    ELSE {layout_info.offset}

_extract_chunk_type_overrides(layout_info, archive_bytes) ==
    IF archive_bytes = <<>> THEN <<>>
    ELSE [k \in {o \in OverrideKeys(layout_info) :
                    /\ o >= 0
                    /\ (layout_info.layout = "rscf"
                           => o + CHUNK_HEADER_SIZE <= Len(archive_bytes))} |->
             IF k + CHUNK_HEADER_SIZE <= Len(archive_bytes)
             THEN <<U32(archive_bytes, k + 8), U32(archive_bytes, k + 12)>>
             ELSE <<0, 0>>]

\* chunk_type_overrides.get(chunk_offset, (0, 0))
OverrideGet(chunk_type_overrides, chunk_offset) ==
    IF chunk_offset \in DOMAIN chunk_type_overrides
    THEN chunk_type_overrides[chunk_offset] ELSE <<0, 0>>

_encode_rscf_chunk(type1, type2, version, data_offset, encoded_name, payload) ==
    TAG_RSCF
    \o PackU32(CHUNK_HEADER_SIZE + 12 + Len(encoded_name) + Len(payload))
    \o PackU32(type1) \o PackU32(type2)
    \o PackU32(version) \o PackU32(data_offset) \o PackU32(Len(payload))
    \o encoded_name \o payload

\* chunk_map.get(chunk_offset) or {}: the types of the chunk at chunk_offset
RECURSIVE ChunkDetailTypes(_, _, _)
ChunkDetailTypes(chunks, i, chunk_offset) ==
    IF i = 0 THEN <<0, 0>>
    ELSE IF chunks[i].offset = chunk_offset THEN <<chunks[i].type1, chunks[i].type2>>
    ELSE ChunkDetailTypes(chunks, i - 1, chunk_offset)

\* type1, type2 of a patch chunk: the override unless both are zero
RscfPatchTypes(layout_info, chunk_type_overrides, chunk_offset) ==
    IF OverrideGet(chunk_type_overrides, chunk_offset) # <<0, 0>>
    THEN OverrideGet(chunk_type_overrides, chunk_offset)
    ELSE ChunkDetailTypes(layout_info.chunks, Len(layout_info.chunks), chunk_offset)

RscfPatchChunk(manifest_entry, payload, types) ==
    _encode_rscf_chunk(types[1], types[2], manifest_entry.header_version,
                       manifest_entry.header_data_offset,
                       EncodedName(manifest_entry), payload)

RECURSIVE RscfPatchLoop(_, _, _, _)
RscfPatchLoop(layout_info, patch_entries, chunk_type_overrides, i) ==
    IF i > Len(patch_entries) THEN <<>>
    ELSE RscfPatchChunk(patch_entries[i].entry, patch_entries[i].payload,
                        RscfPatchTypes(layout_info, chunk_type_overrides,
                                       patch_entries[i].entry.chunk_offset))
         \o RscfPatchLoop(layout_info, patch_entries, chunk_type_overrides, i + 1)

WrittenPaths(patch_entries) ==
    [i \in 1..Len(patch_entries) |-> patch_entries[i].entry.relative_path]

_build_rscf_patch(layout_info, patch_entries, chunk_type_overrides) ==
    [err |-> NoError, msg |-> "",
     bytes |-> ASURA_MAGIC \o RscfPatchLoop(layout_info, patch_entries,
                                            chunk_type_overrides, 1),
     written |-> WrittenPaths(patch_entries)]

\* len(table) once every name and 12-byte record is laid out
RECURSIVE RsflPatchTableSize(_, _)
RsflPatchTableSize(patch_entries, i) ==
    IF i > Len(patch_entries) THEN 0
    ELSE Len(EncodedName(patch_entries[i].entry)) + RSFL_ENTRY_STRUCT_SIZE
         + RsflPatchTableSize(patch_entries, i + 1)

\* payload_area: each payload behind padding to a multiple of 4
RECURSIVE RsflPatchArea(_, _, _)
RsflPatchArea(patch_entries, i, payload_area) ==
    IF i > Len(patch_entries) THEN payload_area
    ELSE RsflPatchArea(patch_entries, i + 1,
                       payload_area \o Zeros((4 - (Len(payload_area) % 4)) % 4)
                       \o patch_entries[i].payload)

\* the table: names and records (raw_offset, size, unk), raw_offset counted
\* from the chunk start
RECURSIVE RsflPatchTable(_, _, _, _)
RsflPatchTable(patch_entries, i, table_size, area_size) ==
    IF i > Len(patch_entries) THEN <<>>
    ELSE EncodedName(patch_entries[i].entry)
         \o PackU32(CHUNK_HEADER_SIZE + RSFL_CHUNK_HEADER_SIZE + table_size
                    + area_size + ((4 - (area_size % 4)) % 4))
         \o PackU32(Len(patch_entries[i].payload))
         \o PackU32(patch_entries[i].entry.unk)
         \o RsflPatchTable(patch_entries, i + 1, table_size,
                           area_size + ((4 - (area_size % 4)) % 4)
                           + Len(patch_entries[i].payload))

RsflPatchBytes(layout_info, types, count, table, payload_area) ==
    ASURA_MAGIC \o TAG_LFSR
    \o PackU32(CHUNK_HEADER_SIZE + RSFL_CHUNK_HEADER_SIZE + Len(table)
               + Len(payload_area))
    \o PackU32(types[1]) \o PackU32(types[2])
    \o PackU32(RSFL_INNER_MAGIC)
    \o PackU32(RSFL_CHUNK_HEADER_SIZE + Len(table) + Len(payload_area))
    \o PackU32(layout_info.type1) \o PackU32(layout_info.type2) \o PackU32(count)
    \o table \o payload_area

_build_rsfl_patch(layout_info, patch_entries, chunk_type_overrides) ==
    IF patch_entries = <<>>
    THEN [err |-> NoError, msg |-> "", bytes |-> <<>>, written |-> <<>>]
    ELSE IF (CHUNK_HEADER_SIZE + RSFL_CHUNK_HEADER_SIZE
             + RsflPatchTableSize(patch_entries, 1)
             + Len(RsflPatchArea(patch_entries, 1, <<>>))) \div 65536 > 65535
    THEN [err |-> RSFLParsingError, msg |-> "exceeds 32-bit offset capacity",
          bytes |-> <<>>, written |-> <<>>]
    ELSE [err |-> NoError, msg |-> "",
          bytes |-> RsflPatchBytes(layout_info,
                                   OverrideGet(chunk_type_overrides, layout_info.offset),
                                   Len(patch_entries),
                                   RsflPatchTable(patch_entries, 1,
                                                  RsflPatchTableSize(patch_entries, 1), 0),
                                   RsflPatchArea(patch_entries, 1, <<>>)),
          written |-> WrittenPaths(patch_entries)]

\* the for loop of generate_patch_archive over the replacements, in the
\* order of the mapping's keys
RECURSIVE PatchEntries(_, _, _, _, _, _)
PatchEntries(files_info, order, i, replacements_, archive_bytes, original_entries) ==
    IF i > Len(order) THEN <<>>
    ELSE (IF \/ IndexGet(files_info, Len(files_info), order[i]).layout = "none"
             \/ IndexGet(original_entries, Len(original_entries), order[i]).layout = "none"
             \/ replacements_[order[i]]
                   = Slice(archive_bytes,
                           IndexGet(original_entries, Len(original_entries), order[i]).offset,
                           IndexGet(original_entries, Len(original_entries), order[i]).offset
                           + IndexGet(original_entries, Len(original_entries), order[i]).size)
          THEN <<>>
          ELSE <<[entry |-> IndexGet(files_info, Len(files_info), order[i]),
                  payload |-> replacements_[order[i]]]>>)
         \o PatchEntries(files_info, order, i + 1, replacements_, archive_bytes,
                         original_entries)

PatchError(msg) ==
    [err |-> RSFLParsingError, msg |-> msg, bytes |-> <<>>, written |-> <<>>]

\* generate_patch_archive once patch_entries is known
PatchBuildUnchecked(layout_info, patch_entries, archive_bytes) ==
    IF layout_info.layout = "rscf"
    THEN _build_rscf_patch(layout_info, patch_entries,
                           _extract_chunk_type_overrides(layout_info, archive_bytes))
    ELSE _build_rsfl_patch(layout_info, patch_entries,
                           _extract_chunk_type_overrides(layout_info, archive_bytes))

PatchBuild(layout_info, patch_entries, archive_bytes) ==
    IF patch_entries = <<>>
    THEN PatchError("no modified files differ from the original archive")
    ELSE IF layout_info.layout = "rscf"
    THEN _build_rscf_patch(layout_info, patch_entries,
                           _extract_chunk_type_overrides(layout_info, archive_bytes))
    ELSE _build_rsfl_patch(layout_info, patch_entries,
                           _extract_chunk_type_overrides(layout_info, archive_bytes))

generate_patch_archive(manifest_, order, replacements_, archive_bytes, original_entries) ==
    IF manifest_.files = <<>>
    THEN PatchError("manifest does not contain any file entries")
    ELSE IF manifest_.rsfl.layout \notin {"rsfl", "rscf"}
    THEN PatchError("manifest does not describe a supported layout")
    ELSE PatchBuild(manifest_.rsfl,
                    PatchEntries(manifest_.files, order, 1, replacements_,
                                 archive_bytes, original_entries),
                    archive_bytes)

-----------------------------------------------------------------------------
(* Archives on disk.  An RSFL archive is the signature, an optional chunk  *)
(* of another tag, and the LFSR chunk: headers, entry table, payload area. *)
(* An RSCF archive is the signature and RSCF chunks, optionally with a     *)
(* chunk of another tag between them.                                      *)

\* non-zero bytes, by position, for payload areas and opaque bodies; distinct
\* within any 20 bytes
Filler(from, n) == [i \in 1..n |-> ((from + i) % 20) + 1]

PadName(name) == name \o Zeros(4 - (Len(name) % 4))

OtherChunk(size, from) ==
    IF size = 0 THEN <<>>
    ELSE <<88, 88, 88, 88>> \o PackU32(size) \o PackU32(0) \o PackU32(0)
         \o Filler(from, size - CHUNK_HEADER_SIZE)

NameA == <<97>>
NameB == <<98>>

\* bytes of the payload area of the RSFL archives
PayloadArea == 12

RECURSIVE RsflTable(_, _)
RsflTable(es, i) ==
    IF i > Len(es) THEN <<>>
    ELSE PadName(es[i].name) \o PackU32(es[i].raw_offset) \o PackU32(es[i].size)
         \o PackU32(es[i].unk) \o RsflTable(es, i + 1)

\* es: <<[name, slot, size, base]>>; an entry's payload is meant at
\* table end + 4 * slot, stored relative to the chunk start ("start"), to the
\* chunk's declared size ("size") or to the chunk's end ("end")
RsflGeometry(prefix, es, wholeChunk) ==
    LET rsfl_offset == Len(ASURA_MAGIC) + prefix
        table_end == rsfl_offset + CHUNK_HEADER_SIZE + RSFL_CHUNK_HEADER_SIZE
                     + 16 * Len(es)
        total == table_end + PayloadArea
        chunk_size == IF wholeChunk THEN total - rsfl_offset ELSE table_end - rsfl_offset
    IN  [rsfl_offset |-> rsfl_offset, table_end |-> table_end, total |-> total,
         chunk_size |-> chunk_size]

RsflRaw(g, e) ==
    g.table_end + 4 * e.slot
    - (CASE e.base = "start" -> g.rsfl_offset
         [] e.base = "size" -> g.chunk_size
         [] OTHER -> g.rsfl_offset + g.chunk_size)

RsflFile(prefix, es, wholeChunk) ==
    LET g == RsflGeometry(prefix, es, wholeChunk)
        table == RsflTable([i \in 1..Len(es) |->
                              [name |-> es[i].name, raw_offset |-> RsflRaw(g, es[i]),
                               size |-> es[i].size, unk |-> 9]], 1)
        head == ASURA_MAGIC \o OtherChunk(prefix, 8)
                \o TAG_LFSR \o PackU32(g.chunk_size) \o PackU32(1) \o PackU32(2)
                \o PackU32(RSFL_INNER_MAGIC) \o PackU32(g.chunk_size - 16)
                \o PackU32(3) \o PackU32(4) \o PackU32(Len(es))
                \o table
    IN  head \o Filler(Len(head), PayloadArea)

\* the first entry's payload is meant at slot 1, the second at slot 0 or
\* sharing slot 1, any further one at slot 2
RsflEntrySpecs(k) ==
    IF k > 2
    THEN [name : {NameB}, slot : {2}, size : {4}, base : {"start"}]
    ELSE [name : IF k = 1 THEN {NameA} ELSE {NameA, NameB},
          slot : IF k = 1 THEN {1} ELSE {0, 1},
          size : {4},
          base : {"start", "size", "end"}]

RsflEntryLists(n) ==
    {x \in [1..n -> RsflEntrySpecs(1) \cup RsflEntrySpecs(2) \cup RsflEntrySpecs(3)] :
        \A i \in 1..n : x[i] \in RsflEntrySpecs(i)}

RsflFiles ==
    UNION {{RsflFile(prefix, es, whole) :
               es \in {x \in RsflEntryLists(n) :
                          \A i \in 1..n :
                             RsflRaw(RsflGeometry(prefix, x, whole), x[i]) >= 0}} :
           prefix \in {0, 52}, whole \in BOOLEAN, n \in 1..MaxEntries}

RscfChunk(c, from) ==
    TAG_RSCF \o PackU32(CHUNK_HEADER_SIZE + 12 + 4 + c.gap + c.span + c.tail)
    \o PackU32(1) \o PackU32(2)
    \o PackU32(5) \o PackU32(c.data_offset) \o PackU32(c.span)
    \o PadName(c.name) \o Filler(from, c.gap + c.span + c.tail)

RscfChunkSpecs(k) ==
    IF k > 2
    THEN [name : {NameB}, data_offset : {0}, gap : {0}, span : {4}, tail : {0}]
    ELSE [name : IF k = 1 THEN {NameA} ELSE {NameA, NameB},
          data_offset : {0, 4, 16777216},
          gap : {0, 4},
          span : {4},
          tail : IF k = 1 THEN {0, 4} ELSE {0}]

RscfChunkLists(n) ==
    {x \in [1..n -> RscfChunkSpecs(1) \cup RscfChunkSpecs(2) \cup RscfChunkSpecs(3)] :
        \A i \in 1..n : x[i] \in RscfChunkSpecs(i)}

RECURSIVE RscfBody(_, _, _, _)
RscfBody(cs, i, between, from) ==
    IF i > Len(cs) THEN <<>>
    ELSE LET c == RscfChunk(cs[i], from)
             o == IF i < Len(cs) THEN OtherChunk(between, from + 50) ELSE <<>>
         IN  c \o o \o RscfBody(cs, i + 1, between, from + 60)

RscfFile(cs, between) == ASURA_MAGIC \o RscfBody(cs, 1, between, 0)

RscfFiles ==
    UNION {{RscfFile(cs, between) : cs \in RscfChunkLists(n)} :
           between \in {0, 20}, n \in 1..MaxEntries}

\* the signature and an LFSR chunk's two headers, for a table of count records
LfsrHead(chunk_size, count) ==
    ASURA_MAGIC \o TAG_LFSR \o PackU32(chunk_size) \o PackU32(1) \o PackU32(2)
    \o PackU32(RSFL_INNER_MAGIC) \o PackU32(chunk_size - 16) \o PackU32(3)
    \o PackU32(4) \o PackU32(count)

\* files load_archive rejects: no RS chunk, a truncated LFSR inner header, an
\* entry outside the buffer, an unsupported signature, a zero-sized chunk, a
\* corrupted inner magic, a table record cut short, an unterminated name, a
\* table shorter than its count, an RSCF header cut short, an RSCF payload
\* larger than its chunk
BrokenFiles ==
    {ASURA_MAGIC \o OtherChunk(20, 0),
     ASURA_MAGIC \o TAG_LFSR \o PackU32(36) \o PackU32(0) \o PackU32(0),
     RsflFile(0, <<[name |-> NameA, slot |-> 3, size |-> 4, base |-> "start"]>>, FALSE),
     <<82, 73, 70, 70, 1, 2, 3, 4, 5, 6>>,
     ASURA_MAGIC \o <<88, 88, 88, 88>> \o PackU32(0) \o PackU32(0) \o PackU32(0),
     ASURA_MAGIC \o TAG_LFSR \o PackU32(36) \o PackU32(1) \o PackU32(2)
         \o PackU32(7) \o PackU32(20) \o PackU32(3) \o PackU32(4) \o PackU32(0),
     LfsrHead(48, 1) \o PadName(NameA) \o PackU32(0) \o PackU32(4),
     LfsrHead(44, 1) \o <<97, 97, 97, 97, 97, 97, 97, 97>>,
     LfsrHead(36, 1),
     ASURA_MAGIC \o TAG_RSCF \o PackU32(24) \o PackU32(1) \o PackU32(2)
         \o PackU32(5) \o PackU32(0),
     ASURA_MAGIC \o TAG_RSCF \o PackU32(36) \o PackU32(1) \o PackU32(2)
         \o PackU32(5) \o PackU32(0) \o PackU32(8) \o PadName(NameA)
         \o <<1, 2, 3, 4>>}

ArchiveFiles == RsflFiles \cup RscfFiles \cup BrokenFiles

ReplLens == {2 * h : h \in 0..MaxHalfLen}

\* the payload supplied for a path: bytes that occur in no payload area
\* (31.. for NameA, 21.. for NameB)
NewPayload(path, n) == [i \in 1..n |-> (IF path = NameA THEN 30 ELSE 20) + i]

ReplacementMaps ==
    UNION {[paths -> ReplLens] : paths \in SUBSET {NameA, NameB}}


-----------------------------------------------------------------------------
(* Codec round trip: a container file is unwrapped, a payload (the same or *)
(* a resized one) is wrapped with the recorded wrapper, and the result is  *)
(* unwrapped again.                                                        *)

CodecBodies == {[i \in 1..n |-> i] : n \in 0..MaxBody}

\* payloads handed to wrap: archives of every length, the empty payload and
\* one that does not start with the raw signature
CodecPayloads == {ASURA_MAGIC \o b : b \in CodecBodies} \cup {<<>>, <<65, 115>>}

\* payloads the container files on disk were made from
StoredPayloads == {ASURA_MAGIC, ASURA_MAGIC \o <<1, 2, 3, 4, 5>>}

SizeModes == {"zero", "exact", "wrong"}

ZlbFile(unknown, csMode, exMode, p) ==
    LET stream == zlib_compress(p)
        cs == CASE csMode = "zero" -> 0
                [] csMode = "exact" -> Len(stream)
                [] OTHER -> Len(stream) + 5
        ex == CASE exMode = "zero" -> 0
                [] exMode = "exact" -> Len(p)
                [] OTHER -> Len(p) + 1
    IN  ASURA_ZLB_MAGIC \o PackU32(unknown) \o PackU32(cs) \o PackU32(ex) \o stream

RECURSIVE SplitEvery(_, _)
SplitEvery(p, k) ==
    IF p = <<>> THEN <<>>
    ELSE <<Slice(p, 0, k)>> \o SplitEvery(SliceFrom(p, k), k)

RECURSIVE ZbbBody(_, _, _)
ZbbBody(pieces, i, declMode) ==
    IF i > Len(pieces) THEN <<>>
    ELSE LET stream == zlib_compress(pieces[i])
             decl == CASE declMode = "zero" -> 0
                       [] declMode = "exact" -> Len(pieces[i])
                       [] declMode = "last" ->
                            IF i = Len(pieces) THEN Len(pieces[i]) + 1
                            ELSE Len(pieces[i])
                       [] OTHER -> Len(pieces[i]) + 1
         IN  PackU32(Len(stream)) \o PackU32(decl) \o stream
             \o ZbbBody(pieces, i + 1, declMode)

ZbbFile(pieces, p, declMode, totalMode, terminated) ==
    LET body == ZbbBody(pieces, 1, declMode)
        total == CASE totalMode = "zero" -> 0
                   [] totalMode = "exact" -> Len(p)
                   [] OTHER -> Len(p) + 1
    IN  ASURA_ZBB_MAGIC \o PackU32(Len(body)) \o PackU32(total) \o body
        \o (IF terminated THEN PackU32(0) \o PackU32(0) ELSE <<>>)

\* the sub-chunk lists a stored payload is cut into; a producer may also emit
\* an empty sub-chunk
PieceLists(p) ==
    UNION { LET s == SplitEvery(p, k)
            IN  {s, <<<<>>>> \o s, s \o <<<<>>>>} : k \in 1..MaxPiece }

Containers ==
    StoredPayloads
    \cup {ZlbFile(u, cs, ex, p) :
            u \in {0, 7}, cs \in SizeModes, ex \in SizeModes, p \in StoredPayloads}
    \cup UNION {{ZbbFile(pieces, p, d, t, z) :
                    pieces \in PieceLists(p), d \in SizeModes \cup {"last"},
                    t \in SizeModes,
                    z \in BOOLEAN} : p \in StoredPayloads}
    \cup {<<65, 115, 117, 114, 97, 88, 88, 88, 0, 0, 0, 0>>,
          ASURA_ZLB_MAGIC \o <<0, 0, 0, 0>>, ASURA_ZBB_MAGIC \o <<0, 0, 0, 0>>,
          ASURA_ZBB_MAGIC \o PackU32(0) \o PackU32(0)}

NoResult == [err |-> "unset"]

\* no file at the output path
NoFile == [exists |-> FALSE, bytes |-> <<>>]

EngineIdle ==
    /\ pc = "idle"
    /\ source = <<>>
    /\ loaded = NoResult
    /\ replacements = <<>>
    /\ updated = <<>>
    /\ entries = <<>>
    /\ idx = 0
    /\ raised = NoError
    /\ before = NoResult
    /\ reloaded = NoResult

CodecIdle ==
    /\ cpc = "idle"
    /\ container = <<>>
    /\ unwrapped = NoResult
    /\ newPayload = <<>>
    /\ wrapped = NoResult
    /\ rewrapped = NoResult

PatchIdle ==
    /\ manifest = NoResult
    /\ patch = NoResult
    /\ patchLoaded = NoResult

FilesIdle ==
    /\ op = "none"
    /\ fpc = "idle"
    /\ modified = <<>>
    /\ mapping = "bytes"
    /\ outputFile = NoFile
    /\ failure = NoError

ScanIdle ==
    /\ scanPc = "idle"
    /\ scanData = <<>>
    /\ scanCursor = 0
    /\ scanChunks = <<>>
    /\ scanVisited = <<>>
    /\ scanResult = NoResult

ParseIdle ==
    /\ parsePc = "idle"
    /\ parseData = <<>>
    /\ parseChunk = NoResult
    /\ parsed = NoResult

NoJob == [status |-> "none"]

SaveIdle ==
    /\ savePc = "idle"
    /\ gui = NoResult
    /\ saveJob = NoJob
    /\ disk = NoFile

RestIdle == ScanIdle /\ ParseIdle /\ SaveIdle

OtherIdle ==
    /\ again = NoResult
    /\ PatchIdle
    /\ FilesIdle
    /\ RestIdle

CodecInit ==
    /\ cpc = "stored"
    /\ container \in Containers
    /\ unwrapped = NoResult
    /\ newPayload = <<>>
    /\ wrapped = NoResult
    /\ rewrapped = NoResult
    /\ EngineIdle
    /\ OtherIdle

\* load: unwrap the file's bytes
CodecUnwrap ==
    /\ cpc = "stored"
    /\ unwrapped' = _unwrap_asura_container(container)
    /\ cpc' = IF unwrapped'.err = NoError THEN "unwrapped" ELSE "rejected"
    /\ UNCHANGED <<container, newPayload, wrapped, rewrapped>>
    /\ UNCHANGED engineVars
    /\ UNCHANGED otherVars

\* save: wrap a payload with the wrapper recorded by unwrap
CodecWrap ==
    /\ cpc = "unwrapped"
    /\ \E p \in CodecPayloads \cup {unwrapped.payload} :
          /\ newPayload' = p
          /\ wrapped' = _wrap_asura_container(p, unwrapped.wrapper)
    /\ cpc' = "wrapped"
    /\ UNCHANGED <<container, unwrapped, rewrapped>>
    /\ UNCHANGED engineVars
    /\ UNCHANGED otherVars

\* load the saved file again
CodecReload ==
    /\ cpc = "wrapped"
    /\ wrapped.err = NoError
    /\ rewrapped' = _unwrap_asura_container(wrapped.bytes)
    /\ cpc' = "reloaded"
    /\ UNCHANGED <<container, unwrapped, newPayload, wrapped>>
    /\ UNCHANGED engineVars
    /\ UNCHANGED otherVars

CodecNext == CodecUnwrap \/ CodecWrap \/ CodecReload

SpecCodec == CodecInit /\ [][CodecNext]_vars

\* C1: unwrap(wrap(payload, w)) gives back the payload and a wrapper of the
\* kind of w (for zlb with the same unknown value), for every payload and every
\* wrapper produced by unwrap; a raw payload must begin with the raw signature.
C1_RoundTrip ==
    (/\ cpc = "reloaded"
     /\ (unwrapped.wrapper.kind = "raw" => StartsWith(newPayload, ASURA_MAGIC)))
    => /\ rewrapped.err = NoError
       /\ rewrapped.payload = newPayload
       /\ rewrapped.wrapper.kind = unwrapped.wrapper.kind
       /\ (unwrapped.wrapper.kind = "zlb"
              => rewrapped.wrapper.unknown = unwrapped.wrapper.unknown)

\* a zbb wrapper with an empty recorded sub-chunk re-wraps a longer payload
C1_Witness ==
    /\ cpc = "reloaded"
    /\ unwrapped.wrapper.kind = "zbb"
    /\ \E i \in 1..Len(unwrapped.wrapper.chunk_sizes) :
          unwrapped.wrapper.chunk_sizes[i] = 0
    /\ Len(newPayload) > Len(unwrapped.payload)
    /\ rewrapped.payload = newPayload

-----------------------------------------------------------------------------
(* Load, replace, reload: an archive file is loaded, a batch of            *)
(* replacements is applied entry by entry in list order, and the resulting *)
(* buffer is loaded again.                                                 *)

EngineInit ==
    /\ pc = "file"
    /\ source \in ArchiveFiles
    /\ \E m \in ReplacementMaps :
          replacements = [path \in DOMAIN m |-> NewPayload(path, m[path])]
    /\ loaded = NoResult
    /\ updated = <<>>
    /\ entries = <<>>
    /\ idx = 0
    /\ raised = NoError
    /\ before = NoResult
    /\ reloaded = NoResult
    /\ CodecIdle
    /\ OtherIdle

\* load_archive
Load ==
    /\ pc = "file"
    /\ loaded' = load_archive(source)
    /\ pc' = IF loaded'.err = NoError THEN "loaded" ELSE "load_failed"
    /\ UNCHANGED <<source, replacements, updated, entries, idx, raised, before,
                   reloaded>>
    /\ UNCHANGED codecVars
    /\ UNCHANGED otherVars

\* _apply_replacements up to its for loop: updated = bytearray(archive_bytes)
ApplyBegin ==
    /\ pc = "loaded"
    /\ updated' = loaded.data
    /\ entries' = loaded.entries
    /\ idx' = 1
    /\ pc' = "applying"
    /\ UNCHANGED <<source, loaded, replacements, raised, before, reloaded>>
    /\ UNCHANGED codecVars
    /\ UNCHANGED otherVars

\* one iteration of the for loop
ApplyStep ==
    /\ pc = "applying"
    /\ idx <= Len(entries)
    /\ IF entries[idx].relative_path \notin DOMAIN replacements
       THEN /\ idx' = idx + 1
            /\ UNCHANGED <<pc, updated, entries, raised, before>>
       ELSE LET r == ReplaceEntry(updated, entries, idx,
                                  replacements[entries[idx].relative_path])
            IN  /\ before' = [err |-> NoError, updated |-> updated,
                              entries |-> entries, idx |-> idx]
                /\ entries' = r.entries
                /\ raised' = r.err
                /\ IF r.err = NoError
                   THEN /\ updated' = r.updated
                        /\ idx' = idx + 1
                        /\ pc' = pc
                   ELSE /\ pc' = "raised"
                        /\ UNCHANGED <<updated, idx>>
    /\ UNCHANGED <<source, loaded, replacements, reloaded>>
    /\ UNCHANGED codecVars
    /\ UNCHANGED otherVars

\* return updated, entries
ApplyReturn ==
    /\ pc = "applying"
    /\ idx > Len(entries)
    /\ pc' = "applied"
    /\ UNCHANGED <<source, loaded, replacements, updated, entries, idx, raised,
                   before, reloaded>>
    /\ UNCHANGED codecVars
    /\ UNCHANGED otherVars

\* load_archive on the bytes written from the result
Reload ==
    /\ pc = "applied"
    /\ reloaded' = load_archive(updated)
    /\ pc' = "reloaded"
    /\ UNCHANGED <<source, loaded, replacements, updated, entries, idx, raised,
                   before>>
    /\ UNCHANGED codecVars
    /\ UNCHANGED otherVars

\* _apply_replacements called a second time with the loaded buffer and the
\* entry list returned by load_archive, whose dictionaries the first call changed
ApplyAgain ==
    /\ pc = "applied"
    /\ again' = _apply_replacements(loaded.data, entries, replacements)
    /\ pc' = "rerun"
    /\ UNCHANGED <<source, loaded, replacements, updated, entries, idx, raised,
                   before, reloaded>>
    /\ UNCHANGED codecVars
    /\ UNCHANGED <<patchVars, fileVars>>
    /\ UNCHANGED restVars

Next == Load \/ ApplyBegin \/ ApplyStep \/ ApplyReturn \/ Reload \/ ApplyAgain

Spec == EngineInit /\ [][Next]_vars

TypeOK ==
    /\ pc \in {"file", "loaded", "load_failed", "applying", "raised", "applied",
               "reloaded", "rerun", "patched", "patch_failed", "patch_loaded"}
    /\ idx \in 0..(MaxEntries + 2)

-----------------------------------------------------------------------------
(* Properties of the replacement engine.                                   *)

\* the bytes an entry addresses in a buffer
PayloadOf(buf, e) == Slice(buf, e.offset, e.offset + e.size)

\* a replacement has been applied; `before` holds the buffer and the entries
\* as they were before it
Replaced == before.err = NoError /\ raised = NoError
OldEntry == before.entries[before.idx]
NewEntry == entries[before.idx]
Supplied == replacements[OldEntry.relative_path]

\* C2: an RSCF replacement of length S sets size and header_data_span to S and
\* the u32 at header_offset+8 to S; with delta = S - old size # 0 the chunk's
\* total size field and chunk_size become old+delta; every other entry whose
\* chunk_offset is greater has chunk_offset, offset, offset_anchor and
\* header_offset increased by delta, the entries at or before keep theirs.
C2_RscfReplacement ==
    (Replaced /\ OldEntry.layout = "rscf") =>
        LET S == Len(Supplied)
            delta == S - OldEntry.size
        IN  /\ NewEntry.size = S
            /\ NewEntry.header_data_span = S
            /\ U32(updated, NewEntry.header_offset + 8) = S
            /\ NewEntry.chunk_size = OldEntry.chunk_size + delta
            /\ U32(updated, NewEntry.chunk_offset + 4) = OldEntry.chunk_size + delta
            /\ \A j \in 1..Len(entries) :
                  j # before.idx =>
                     LET o == before.entries[j]
                         e == entries[j]
                     IN  IF o.chunk_offset > OldEntry.chunk_offset
                         THEN /\ e.chunk_offset = o.chunk_offset + delta
                              /\ e.offset = o.offset + delta
                              /\ e.offset_anchor = o.offset_anchor + delta
                              /\ e.header_offset = o.header_offset + delta
                              /\ e.size = o.size
                              /\ e.chunk_size = o.chunk_size
                         ELSE e = o

\* the second of two RSCF entries was resized: the first keeps its fields
C2_Witness ==
    /\ Replaced
    /\ OldEntry.layout = "rscf"
    /\ before.idx = 2
    /\ Len(Supplied) # OldEntry.size
    /\ entries[1] = before.entries[1]
    /\ U32(updated, NewEntry.chunk_offset + 4) = NewEntry.chunk_size

\* C4: an RSFL replacement of a different size leaves the existing bytes in
\* place (but for the entry's 12-byte table record), pads with zeros to a
\* multiple of 4 and appends the payload; the table record becomes
\* (raw_offset, new size, unk) with raw_offset + offset_anchor = new offset.
C4_RsflAppend ==
    (Replaced /\ OldEntry.layout = "rsfl" /\ Len(Supplied) # OldEntry.size) =>
        LET S == Len(Supplied)
            oldLen == Len(before.updated)
            t == OldEntry.table_offset
        IN  /\ \A k \in 1..oldLen :
                  (k <= t \/ k > t + 12) => updated[k] = before.updated[k]
            /\ NewEntry.offset % 4 = 0
            /\ NewEntry.offset >= oldLen
            /\ NewEntry.offset < oldLen + 4
            /\ \A k \in (oldLen + 1)..NewEntry.offset : updated[k] = 0
            /\ Len(updated) = NewEntry.offset + S
            /\ PayloadOf(updated, NewEntry) = Supplied
            /\ NewEntry.size = S
            /\ NewEntry.unk = OldEntry.unk
            /\ NewEntry.table_offset = t
            /\ U32(updated, t) = NewEntry.raw_offset
            /\ U32(updated, t + 4) = S
            /\ U32(updated, t + 8) = OldEntry.unk
            /\ NewEntry.raw_offset + NewEntry.offset_anchor = NewEntry.offset

\* a payload appended after two bytes of padding
C4_Witness ==
    /\ Replaced
    /\ OldEntry.layout = "rsfl"
    /\ Len(Supplied) # OldEntry.size
    /\ NewEntry.offset = Len(before.updated) + 2
    /\ PayloadOf(updated, NewEntry) = Supplied

\* C5: an RSFL replacement of the same size overwrites the payload in place:
\* buffer length, entry offset and raw_offset (entry and table record) are
\* unchanged.
C5_RsflInPlace ==
    (Replaced /\ OldEntry.layout = "rsfl" /\ Len(Supplied) = OldEntry.size) =>
        LET t == OldEntry.table_offset
        IN  /\ Len(updated) = Len(before.updated)
            /\ NewEntry.offset = OldEntry.offset
            /\ NewEntry.size = OldEntry.size
            /\ NewEntry.raw_offset = OldEntry.raw_offset
            /\ U32(updated, t) = OldEntry.raw_offset
            /\ \A k \in 1..Len(updated) :
                  (k <= t \/ k > t + 12) =>
                     updated[k] = IF k > OldEntry.offset
                                     /\ k <= OldEntry.offset + OldEntry.size
                                  THEN Supplied[k - OldEntry.offset]
                                  ELSE before.updated[k]

C5_Witness ==
    /\ Replaced
    /\ OldEntry.layout = "rsfl"
    /\ Len(Supplied) = OldEntry.size
    /\ OldEntry.size > 0
    /\ PayloadOf(updated, NewEntry) = Supplied
    /\ PayloadOf(before.updated, OldEntry) # Supplied

IsRsfl == loaded.err = NoError /\ loaded.chunk_info.layout = "rsfl"
IsRscf == loaded.err = NoError /\ loaded.chunk_info.layout = "rscf"

\* the loaded RSFL payloads lie behind the entry table
PayloadsBehindTable ==
    \A j \in 1..Len(loaded.entries) :
        loaded.entries[j].offset >= loaded.chunk_info.table_end

\* the loaded RSFL payloads lie behind the entry table and do not overlap
SeparatePayloads ==
    /\ PayloadsBehindTable
    /\ \A j, k \in 1..Len(loaded.entries) :
          j < k => \/ loaded.entries[j].offset + loaded.entries[j].size
                        <= loaded.entries[k].offset
                   \/ loaded.entries[k].offset + loaded.entries[k].size
                        <= loaded.entries[j].offset

\* C3: after a batch, every entry whose relative_path is not in the mapping
\* keeps its size, and the bytes at its offset in the new buffer are its
\* original payload bytes (stated for archives whose payloads lie behind the
\* entry table).
C3_UntouchedEntries ==
    (pc = "applied" /\ (IsRsfl => PayloadsBehindTable)) =>
        \A j \in 1..Len(entries) :
            loaded.entries[j].relative_path \notin DOMAIN replacements =>
                /\ entries[j].size = loaded.entries[j].size
                /\ PayloadOf(updated, entries[j])
                      = PayloadOf(loaded.data, loaded.entries[j])

\* C6: after an RSFL entry is replaced by a payload of a different size,
\* loading the resulting buffer reports the entry with the new size at an
\* offset where the new payload bytes are found (stated for archives whose
\* payloads are separate).
C6_RsflReload ==
    (pc = "reloaded" /\ IsRsfl) =>
      (SeparatePayloads =>
        \A j \in 1..Len(entries) :
            (/\ entries[j].relative_path \in DOMAIN replacements
             /\ Len(replacements[entries[j].relative_path]) # loaded.entries[j].size)
            => /\ reloaded.err = NoError
               /\ Len(reloaded.entries) = Len(entries)
               /\ reloaded.entries[j].size = Len(replacements[entries[j].relative_path])
               /\ PayloadOf(updated, reloaded.entries[j])
                     = replacements[entries[j].relative_path])

\* C7: after a batch that grows the buffer by appending, loading the result
\* resolves every non-replaced RSFL entry to the offset and size it had before
\* (stated for archives whose payloads are separate).
C7_RsflAddressability ==
    (pc = "reloaded" /\ IsRsfl /\ Len(updated) > Len(loaded.data)) =>
      (SeparatePayloads =>
        \A j \in 1..Len(entries) :
            loaded.entries[j].relative_path \notin DOMAIN replacements
            => /\ reloaded.err = NoError
               /\ Len(reloaded.entries) = Len(entries)
               /\ reloaded.entries[j].offset = loaded.entries[j].offset
               /\ reloaded.entries[j].size = loaded.entries[j].size)

\* C8: after a batch of RSCF replacements, scanning and parsing the resulting
\* buffer yields for every entry the relative_path, offset, size, chunk_offset
\* and chunk_size of the entry list the engine returned, and the payload at
\* that offset is the supplied replacement, or the original payload.
C8_RscfReload ==
    (pc = "reloaded" /\ IsRscf) =>
        /\ reloaded.err = NoError
        /\ Len(reloaded.entries) = Len(entries)
        /\ \A j \in 1..Len(entries) :
              LET r == reloaded.entries[j]
                  e == entries[j]
              IN  /\ r.relative_path = e.relative_path
                  /\ r.offset = e.offset
                  /\ r.size = e.size
                  /\ r.chunk_offset = e.chunk_offset
                  /\ r.chunk_size = e.chunk_size
                  /\ PayloadOf(updated, r)
                        = IF e.relative_path \in DOMAIN replacements
                          THEN replacements[e.relative_path]
                          ELSE PayloadOf(loaded.data, loaded.entries[j])

\* the first chunk was resized, the second one moved and was resized too
C8_Witness ==
    /\ pc = "reloaded"
    /\ IsRscf
    /\ Len(entries) = 2
    /\ entries[1].size # loaded.entries[1].size
    /\ entries[2].size # loaded.entries[2].size
    /\ entries[2].chunk_offset # loaded.entries[2].chunk_offset
    /\ reloaded.err = NoError
    /\ reloaded.entries[2].offset = entries[2].offset

AllInBuffer(ents, buf) ==
    \A j \in 1..Len(ents) : ents[j].offset + ents[j].size <= Len(buf)

\* C9: offset + size <= buffer length for every entry returned by load and for
\* every entry after each replacement of a batch, against the buffer as it is
\* at that moment.
C9_EntriesInBuffer ==
    /\ loaded.err = NoError => AllInBuffer(loaded.entries, loaded.data)
    /\ pc \in {"applying", "applied", "reloaded"} => AllInBuffer(entries, updated)
    /\ reloaded.err = NoError => AllInBuffer(reloaded.entries, updated)

\* an RSCF chunk shrank and the chunk behind it, moved down, ends the buffer
C9_Witness ==
    /\ pc = "applying"
    /\ Replaced
    /\ OldEntry.layout = "rscf"
    /\ before.idx = 1
    /\ Len(entries) = 2
    /\ Len(updated) < Len(before.updated)
    /\ entries[2].offset + entries[2].size = Len(updated)
    /\ AllInBuffer(entries, updated)

WithinChunk(e, chunk_start, chunk_size) ==
    /\ chunk_start <= e.offset
    /\ e.offset + e.size <= chunk_start + chunk_size

AllWithinOwnChunk(ents) ==
    \A j \in 1..Len(ents) :
        ents[j].layout = "rscf" =>
            WithinChunk(ents[j], ents[j].chunk_offset, ents[j].chunk_size)

AllWithinLfsrChunk(ents) ==
    \A j \in 1..Len(ents) :
        ents[j].layout = "rsfl" =>
            WithinChunk(ents[j], loaded.chunk_info.offset, loaded.chunk_info.chunk_size)

\* C10 (as amended): every RSCF entry's byte range stays within its chunk's
\* bounds [chunk_offset, chunk_offset + chunk_size) after load and after any
\* replacement.
C10_RscfWithinChunk ==
    /\ loaded.err = NoError => AllWithinOwnChunk(loaded.entries)
    /\ pc \in {"applying", "applied", "reloaded"} => AllWithinOwnChunk(entries)
    /\ reloaded.err = NoError => AllWithinOwnChunk(reloaded.entries)

\* C10 (as claimed): RSFL entries too stay within the LFSR chunk's bounds.
C10_AllWithinChunk ==
    /\ C10_RscfWithinChunk
    /\ loaded.err = NoError => AllWithinLfsrChunk(loaded.entries)
    /\ pc \in {"applying", "applied", "reloaded"} => AllWithinLfsrChunk(entries)

\* a grown RSCF payload ends where its grown chunk ends
C10_Witness ==
    /\ Replaced
    /\ OldEntry.layout = "rscf"
    /\ NewEntry.size > OldEntry.size
    /\ NewEntry.offset + NewEntry.size = NewEntry.chunk_offset + NewEntry.chunk_size
    /\ AllWithinOwnChunk(entries)

-----------------------------------------------------------------------------
(* Properties of load_archive.                                             *)

\* C11: no two entries returned by one load have the same relative_path.
C11_UniquePaths ==
    (pc = "loaded") =>
        \A j, k \in 1..Len(loaded.entries) :
            j < k => loaded.entries[j].relative_path # loaded.entries[k].relative_path

\* C17: every failure of load is reported as the archive error kind.
C17_SingleErrorKind ==
    (pc = "load_failed") => loaded.err = RSFLParsingError

\* C20: for each RSFL entry load resolves the offset as chunk end + raw_offset
\* when that position plus size fits in the buffer, otherwise as chunk start +
\* raw_offset; the stored offset_anchor is the base used, the chunk's end or
\* the chunk's start.
C20_Resolution ==
    (pc = "loaded" /\ IsRsfl) =>
        \A j \in 1..Len(loaded.entries) :
            LET e == loaded.entries[j]
                chunk_start == loaded.chunk_info.offset
                chunk_end == chunk_start + loaded.chunk_info.chunk_size
                base == IF chunk_end + e.raw_offset + e.size <= Len(loaded.data)
                        THEN chunk_end ELSE chunk_start
            IN  /\ e.offset = base + e.raw_offset
                /\ e.offset_anchor = base
                /\ e.offset + e.size <= Len(loaded.data)

-----------------------------------------------------------------------------
(* Properties of repeated and direct calls of the replacement engine.      *)

\* C16: _apply_replacements does not write to the buffer it is given, and the
\* same batch applied a second time to the same loaded buffer and entry list
\* gives the output buffer and the entry values of the first run.
C16_RerunSafe ==
    (pc = "rerun") =>
        /\ loaded.data = source
        /\ again.err = NoError
        /\ again.updated = updated
        /\ again.entries = entries

-----------------------------------------------------------------------------
(* Direct calls: _apply_replacements is given a buffer and entry           *)
(* dictionaries written by the caller, as the unit tests do, so an entry   *)
(* need not describe what a load of the buffer would report.               *)

\* 32 bytes: two table records at 0 and 12, two 4-byte payloads at 24 and 28
DirectBuffer ==
    PackU32(24) \o PackU32(4) \o PackU32(0) \o PackU32(28) \o PackU32(4)
    \o PackU32(0) \o Filler(0, 8)

DirectRsflEntry(path, k, anchor) ==
    [name |-> path, relative_path |-> path, offset |-> 20 + 4 * k, size |-> 4,
     unk |-> 0, raw_offset |-> 20 + 4 * k, table_offset |-> 12 * (k - 1),
     offset_anchor |-> anchor, anchor_kind |-> "absolute", layout |-> "rsfl"]

DirectRscfEntry(path, k, chunk_offset, header_offset, chunk_size) ==
    [layout |-> "rscf", name |-> path, relative_path |-> path,
     offset |-> 20 + 4 * k, size |-> 4, raw_offset |-> None, table_offset |-> None,
     offset_anchor |-> 20 + 4 * k, anchor_kind |-> "absolute",
     chunk_offset |-> chunk_offset, chunk_size |-> chunk_size,
     header_offset |-> header_offset, header_version |-> 5,
     header_data_offset |-> 0, header_data_span |-> 4]

\* the first entry: an RSFL entry with an anchor at, before or behind the
\* payload and the end of the buffer, or an RSCF entry with or without chunk
\* metadata whose chunk size is smaller than, equal to or larger than the
\* payload
DirectFirst ==
    {DirectRsflEntry(NameA, 1, anchor) : anchor \in {0, 24, 28, 36, 44}}
    \cup {DirectRscfEntry(NameA, 1, co, ho, cs) :
             co \in {None, 0}, ho \in {None, 4}, cs \in {2, 4, 32}}

DirectSecond ==
    {DirectRsflEntry(NameB, 2, anchor) : anchor \in {0, 44}}
    \cup {DirectRscfEntry(NameB, 2, 8, 12, 24),
          DirectRscfEntry(NameB, 2, None, None, 24)}

DirectEntryLists ==
    {<<e>> : e \in DirectFirst} \cup {<<e, f>> : e \in DirectFirst, f \in DirectSecond}

DirectInit ==
    /\ pc = "loaded"
    /\ source = DirectBuffer
    /\ \E es \in DirectEntryLists :
          loaded = [err |-> NoError, msg |-> "", data |-> DirectBuffer,
                    chunk_info |-> [layout |-> "none"], entries |-> es,
                    wrapper |-> [kind |-> "raw"]]
    /\ \E m \in ReplacementMaps :
          replacements = [path \in DOMAIN m |-> NewPayload(path, m[path])]
    /\ updated = <<>>
    /\ entries = <<>>
    /\ idx = 0
    /\ raised = NoError
    /\ before = NoResult
    /\ reloaded = NoResult
    /\ CodecIdle
    /\ OtherIdle

DirectNext == ApplyBegin \/ ApplyStep \/ ApplyReturn

SpecDirect == DirectInit /\ [][DirectNext]_vars

\* the raw_offset the RSFL branch computes for the replacement just attempted
AttemptedRawOffset ==
    LET length == Len(before.updated)
        new_offset == IF Len(Supplied) = OldEntry.size THEN OldEntry.offset
                      ELSE length + ((4 - (length % 4)) % 4)
    IN  new_offset - OldEntry.offset_anchor

C13_RscfShrinkRejected ==
    /\ (/\ before.err = NoError
        /\ OldEntry.layout = "rscf"
        /\ OldEntry.chunk_offset # None
        /\ OldEntry.header_offset # None
        /\ Len(Supplied) # OldEntry.size
        /\ OldEntry.chunk_size + (Len(Supplied) - OldEntry.size) <= 0)
       => (raised = RSFLParsingError /\ pc = "raised")
    /\ (pc = "applied") => raised = NoError

\* a chunk of declared size 4 that loses its 4 payload bytes would be left with
\* size 0
C13_Witness ==
    /\ pc = "raised"
    /\ OldEntry.layout = "rscf"
    /\ OldEntry.chunk_offset # None
    /\ OldEntry.header_offset # None
    /\ OldEntry.chunk_size + (Len(Supplied) - OldEntry.size) = 0
    /\ raised = RSFLParsingError

-----------------------------------------------------------------------------
(* Patch building: an archive is loaded, generate_patch_archive is called  *)
(* with a manifest, a replacement mapping, the loaded buffer and the       *)
(* loaded entries, and the patch bytes are loaded.                         *)

\* archives a patch is built for: the LFSR chunk first, RSCF chunks adjacent
PatchSources ==
    UNION {{RsflFile(0, es, whole) :
               es \in {x \in RsflEntryLists(n) :
                          \A i \in 1..n :
                             RsflRaw(RsflGeometry(0, x, whole), x[i]) >= 0}} :
           whole \in BOOLEAN, n \in 1..MaxEntries}
    \cup UNION {{RscfFile(cs, 0) : cs \in RscfChunkLists(n)} : n \in 1..MaxEntries}

\* the manifest's file list: the entries of the archive, as an extraction
\* wrote them, or such a list without its first entry, or with one more
\* entry stored under the name "b"
ManifestFiles(ents) ==
    {ents, Tail(ents),
     Append(ents, [ents[1] EXCEPT !.name = NameB, !.relative_path = NameB])}

\* the payloads a caller supplies for a path: new bytes of every length, or
\* the bytes an entry of that path has in the archive
PatchPayloads(path, data, ents) ==
    {NewPayload(path, n) : n \in ReplLens}
    \cup {Slice(data, ents[j].offset, ents[j].offset + ents[j].size) :
             j \in {k \in 1..Len(ents) : ents[k].relative_path = path}}

\* the orders in which a mapping over paths lists its keys
KeyOrders(paths) ==
    {o \in {<<>>, <<NameA>>, <<NameB>>, <<NameA, NameB>>, <<NameB, NameA>>} :
        {o[i] : i \in 1..Len(o)} = paths /\ Len(o) = Cardinality(paths)}

PatchInit ==
    /\ pc = "file"
    /\ source \in PatchSources
    /\ loaded = NoResult
    /\ replacements = <<>>
    /\ updated = <<>>
    /\ entries = <<>>
    /\ idx = 0
    /\ raised = NoError
    /\ before = NoResult
    /\ reloaded = NoResult
    /\ CodecIdle
    /\ OtherIdle

\* generate_patch_archive(manifest, replacements, archive_bytes=...,
\* original_entries=...)
GeneratePatch ==
    /\ pc = "loaded"
    /\ \E files \in ManifestFiles(loaded.entries), paths \in SUBSET {NameA, NameB} :
          \E order \in KeyOrders(paths) :
             \E r \in [paths -> UNION {PatchPayloads(q, loaded.data, loaded.entries) :
                                          q \in paths}] :
                /\ \A q \in paths : r[q] \in PatchPayloads(q, loaded.data, loaded.entries)
                /\ manifest' = [archive |-> "archive", rsfl |-> loaded.chunk_info,
                                files |-> files]
                /\ replacements' = r
                /\ patch' = generate_patch_archive(
                                [archive |-> "archive", rsfl |-> loaded.chunk_info,
                                 files |-> files],
                                order, r, loaded.data, loaded.entries)
    /\ pc' = IF patch'.err = NoError THEN "patched" ELSE "patch_failed"
    /\ UNCHANGED <<source, loaded, updated, entries, idx, raised, before, reloaded>>
    /\ UNCHANGED <<again, patchLoaded>>
    /\ UNCHANGED fileVars
    /\ UNCHANGED restVars
    /\ UNCHANGED codecVars

\* load_archive on the written patch
LoadPatch ==
    /\ pc = "patched"
    /\ patchLoaded' = load_archive(patch.bytes)
    /\ pc' = "patch_loaded"
    /\ UNCHANGED <<source, loaded, replacements, updated, entries, idx, raised,
                   before, reloaded>>
    /\ UNCHANGED <<again, manifest, patch>>
    /\ UNCHANGED fileVars
    /\ UNCHANGED restVars
    /\ UNCHANGED codecVars

PatchNext == Load \/ GeneratePatch \/ LoadPatch

SpecPatch == PatchInit /\ [][PatchNext]_vars

\* some entry of the list is stored under the path
HasPath(ents, path) == \E j \in 1..Len(ents) : ents[j].relative_path = path

\* the payload supplied for the path differs from the original payload at the
\* recorded offset and size of an entry of that path
DiffersFromOriginal(path) ==
    \E j \in 1..Len(loaded.entries) :
        /\ loaded.entries[j].relative_path = path
        /\ replacements[path] # PayloadOf(loaded.data, loaded.entries[j])

EqualsOriginal(path) ==
    \E j \in 1..Len(loaded.entries) :
        /\ loaded.entries[j].relative_path = path
        /\ replacements[path] = PayloadOf(loaded.data, loaded.entries[j])

PatchDone == pc \in {"patched", "patch_failed", "patch_loaded"}

WrittenSet == {patch.written[i] : i \in 1..Len(patch.written)}

\* C14: generate_patch_archive includes exactly the replacement paths that
\* are in the manifest and in the original entry list and whose payload differs
\* from the original payload of the entry, returns exactly those paths as the
\* written list, and fails with the archive error when there is none.
C14_PatchSelection ==
    PatchDone =>
        /\ \A q \in DOMAIN replacements :
              /\ (q \in WrittenSet =>
                     /\ HasPath(manifest.files, q)
                     /\ HasPath(loaded.entries, q)
                     /\ DiffersFromOriginal(q))
              /\ (/\ patch.err = NoError
                  /\ q \notin WrittenSet
                  /\ HasPath(manifest.files, q)
                  /\ HasPath(loaded.entries, q)) => EqualsOriginal(q)
        /\ WrittenSet \subseteq DOMAIN replacements
        /\ Len(patch.written) = Cardinality(WrittenSet)
        /\ (patch.err = NoError => WrittenSet # {})
        /\ (patch.err # NoError =>
               \A q \in DOMAIN replacements :
                  \/ ~HasPath(manifest.files, q)
                  \/ ~HasPath(loaded.entries, q)
                  \/ EqualsOriginal(q))
        /\ (patch.err # NoError => patch.err = RSFLParsingError /\ patch.written = <<>>)

\* of two supplied payloads one equals the original and one path is missing
\* from the manifest or differs: one path is written, the other is left out
C14_Witness ==
    /\ pc = "patched"
    /\ DOMAIN replacements = {NameA, NameB}
    /\ Len(patch.written) = 1
    /\ \E q \in DOMAIN replacements :
          q \notin WrittenSet /\ HasPath(manifest.files, q) /\ EqualsOriginal(q)

\* C15: loading the patch gives the layout of the source, one entry per
\* written path, and at each entry's offset and size the payload supplied for
\* its path.
C15_PatchRoundTrip ==
    (pc = "patch_loaded") =>
        /\ patchLoaded.err = NoError
        /\ patchLoaded.chunk_info.layout = loaded.chunk_info.layout
        /\ Len(patchLoaded.entries) = Len(patch.written)
        /\ \A i \in 1..Len(patch.written) :
              /\ patchLoaded.entries[i].relative_path = patch.written[i]
              /\ PayloadOf(patch.bytes, patchLoaded.entries[i])
                    = replacements[patch.written[i]]

\* an RSFL patch of two payloads with padding between them, and an RSCF patch
\* whose header carries a data_offset that does not point at the payload
C15_Witness ==
    /\ pc = "patch_loaded"
    /\ Len(patch.written) = 2
    /\ patchLoaded.err = NoError
    /\ IF loaded.chunk_info.layout = "rsfl"
       THEN /\ Len(replacements[patch.written[1]]) % 4 = 2
            /\ patchLoaded.entries[2].offset
                 = patchLoaded.entries[1].offset + patchLoaded.entries[1].size + 2
       ELSE /\ patchLoaded.entries[1].header_data_offset = 4
            /\ patchLoaded.entries[1].size > 0

-----------------------------------------------------------------------------
(* File operations: repack_archive and write_patch_archive read a manifest *)
(* and an archive file, which _read_archive_bytes reads into bytes or maps *)
(* into memory, collect the files of the modified directory and write one  *)
(* output file.                                                            *)

\* _unwrap_asura_container slices the memory map and decompresses copies;
\* _scan_for_rsfl calls data.startswith, which a memory map does not have
LoadMapped(u) ==
    IF u.err = NoError /\ u.wrapper.kind = "raw"
    THEN LoadError(AttributeError, "'mmap.mmap' object has no attribute 'startswith'")
    ELSE LoadUnwrapped(u)

\* load_archive on what _read_archive_bytes returned
LoadBuffer(buffer, original_bytes) ==
    IF buffer = "open" THEN LoadMapped(_unwrap_asura_container(original_bytes))
    ELSE load_archive(original_bytes)

\* _read_archive_bytes: a file of MEMORY_MAP_THRESHOLD bytes or more is mapped
_read_archive_bytes(buffer) == IF buffer = "unopened" THEN "open" ELSE buffer

\* _release_archive_buffer: close() where the buffer has one
_release_archive_buffer(buffer) == IF buffer = "open" THEN "closed" ELSE buffer

\* load_archive: the original buffer is released when the unwrap returned
\* another object
ReleasedByLoad(buffer, u) ==
    IF u.err = NoError /\ u.wrapper.kind # "raw" THEN _release_archive_buffer(buffer)
    ELSE buffer

\* the relative paths of the manifest, in manifest order, that have a file in
\* the modified directory
RECURSIVE CollectOrder(_, _, _, _)
CollectOrder(files_info, modified_dir, i, seen) ==
    IF i > Len(files_info) THEN seen
    ELSE IF /\ files_info[i].relative_path # <<>>
            /\ files_info[i].relative_path \in DOMAIN modified_dir
            /\ \A k \in 1..Len(seen) : seen[k] # files_info[i].relative_path
    THEN CollectOrder(files_info, modified_dir, i + 1,
                      Append(seen, files_info[i].relative_path))
    ELSE CollectOrder(files_info, modified_dir, i + 1, seen)

_collect_replacement_payloads(files_info, modified_dir) ==
    LET order == CollectOrder(files_info, modified_dir, 1, <<>>)
    IN  [q \in {order[k] : k \in 1..Len(order)} |-> modified_dir[q]]

FileError(kind, msg) == [err |-> kind, msg |-> msg, bytes |-> <<>>]

\* repack_archive: the wrapped bytes
RepackWrapped(w) ==
    IF w.err # NoError THEN FileError(w.err, "unsupported wrapper kind")
    ELSE [err |-> NoError, msg |-> "", bytes |-> w.bytes]

\* repack_archive after _apply_replacements
RepackApplied(l, a) ==
    IF a.err # NoError THEN FileError(a.err, a.msg)
    ELSE RepackWrapped(_wrap_asura_container(a.updated, l.wrapper))

\* repack_archive after _collect_replacement_payloads
RepackCollected(l, collected) ==
    IF DOMAIN collected = {}
    THEN FileError(RSFLParsingError, "no modified files found in the provided directory")
    ELSE RepackApplied(l, _apply_replacements(l.data, l.entries, collected))

\* the body of the try statement of repack_archive
RepackBody(l, manifest_, modified_dir) ==
    IF manifest_.wrapper.kind # l.wrapper.kind
    THEN FileError(RSFLParsingError,
                   "manifest was generated from an archive with a different compression wrapper")
    ELSE RepackCollected(l, _collect_replacement_payloads(manifest_.files, modified_dir))

\* write_patch_archive after generate_patch_archive
PatchGenerated(g) ==
    IF g.err # NoError THEN FileError(g.err, g.msg)
    ELSE [err |-> NoError, msg |-> "", bytes |-> g.bytes]

\* the body of the try statement of write_patch_archive
PatchBody(l, manifest_, modified_dir) ==
    IF DOMAIN _collect_replacement_payloads(manifest_.files, modified_dir) = {}
    THEN FileError(RSFLParsingError, "no modified files found in the provided directory")
    ELSE PatchGenerated(
             generate_patch_archive(
                 [archive |-> manifest_.archive, rsfl |-> l.chunk_info,
                  files |-> manifest_.files],
                 CollectOrder(manifest_.files, modified_dir, 1, <<>>),
                 _collect_replacement_payloads(manifest_.files, modified_dir),
                 l.data, l.entries))

\* the output file after the try statement, created by the write as well
WrittenFileAlways(r) == [exists |-> TRUE, bytes |-> r.bytes]

\* the output file after the try statement: output_path.write_bytes is its
\* last statement
WrittenFile(r) == IF r.err = NoError THEN [exists |-> TRUE, bytes |-> r.bytes] ELSE NoFile

\* the checks of the manifest before the archive is read
ManifestError(manifest_) ==
    IF manifest_.archive # "archive"
    THEN "original archive file name does not match manifest metadata"
    ELSE IF manifest_.files = <<>>
    THEN "manifest does not contain any file entries"
    ELSE ""

\* archive files: raw archives of one entry, the same inside an AsuraZlb
\* container, files load_archive rejects, a rejected archive inside a
\* container, and a container with a truncated header
RawSources ==
    {RsflFile(0, es, TRUE) :
        es \in {x \in RsflEntryLists(1) :
                   RsflRaw(RsflGeometry(0, x, TRUE), x[1]) >= 0}}
    \cup {RscfFile(cs, 0) : cs \in RscfChunkLists(1)}

FileSources ==
    RawSources
    \cup {ZlbFile(7, "exact", "exact", f) : f \in RawSources}
    \cup BrokenFiles
    \cup {ZlbFile(7, "exact", "exact", ASURA_MAGIC \o OtherChunk(20, 0)),
          ASURA_ZLB_MAGIC \o <<0, 0>>}

\* the file list of the manifest: empty, or the entries an extraction of the
\* archive wrote, or one entry where the archive cannot be extracted
ManifestLists(l) ==
    {<<>>,
     IF l.err = NoError THEN l.entries ELSE <<[name |-> NameA, relative_path |-> NameA]>>}

\* the modified directory: empty, a file under the first entry's path with
\* new bytes or with the bytes the archive stores, or a file of another path
ModifiedDirs(l) ==
    {<<>>, [q \in {NameB} |-> NewPayload(NameB, 2)]}
    \cup {[q \in {NameA} |-> NewPayload(NameA, n)] : n \in ReplLens}
    \cup (IF l.err = NoError
          THEN {[q \in {l.entries[1].relative_path} |-> PayloadOf(l.data, l.entries[1])]}
          ELSE {})

FilesInputs(l) ==
    /\ manifest \in [archive : {"archive", "other"},
                     wrapper : {[kind |-> "raw"], [kind |-> "zlb"]},
                     files : ManifestLists(l)]
    /\ modified \in ModifiedDirs(l)

FilesInit ==
    /\ op \in {"repack", "patch"}
    /\ fpc = "start"
    /\ source \in FileSources
    /\ FilesInputs(load_archive(source))
    /\ mapping \in {"bytes", "unopened"}
    /\ outputFile = NoFile
    /\ failure = NoError
    /\ pc = "file"
    /\ loaded = NoResult
    /\ replacements = <<>>
    /\ updated = <<>>
    /\ entries = <<>>
    /\ idx = 0
    /\ raised = NoError
    /\ before = NoResult
    /\ reloaded = NoResult
    /\ again = NoResult
    /\ patch = NoResult
    /\ patchLoaded = NoResult
    /\ RestIdle
    /\ CodecIdle

\* the manifest is read and checked against the archive's file name
CheckManifest ==
    /\ fpc = "start"
    /\ fpc' = IF ManifestError(manifest) = "" THEN "checked" ELSE "failed"
    /\ failure' = IF ManifestError(manifest) = "" THEN NoError ELSE RSFLParsingError
    /\ UNCHANGED <<op, modified, mapping, outputFile>>
    /\ UNCHANGED <<again, manifest, patch, patchLoaded>>
    /\ UNCHANGED restVars
    /\ UNCHANGED engineVars
    /\ UNCHANGED codecVars

\* load_archive: _read_archive_bytes
ReadArchive ==
    /\ fpc = "checked"
    /\ mapping' = _read_archive_bytes(mapping)
    /\ fpc' = "read"
    /\ UNCHANGED <<op, modified, outputFile, failure>>
    /\ UNCHANGED <<again, manifest, patch, patchLoaded>>
    /\ UNCHANGED restVars
    /\ UNCHANGED engineVars
    /\ UNCHANGED codecVars

\* load_archive after _read_archive_bytes
LoadArchive ==
    /\ fpc = "read"
    /\ loaded' = LoadBuffer(mapping, source)
    /\ mapping' = ReleasedByLoad(mapping, _unwrap_asura_container(source))
    /\ fpc' = IF loaded'.err = NoError THEN "loaded" ELSE "failed"
    /\ failure' = loaded'.err
    /\ UNCHANGED <<op, modified, outputFile>>
    /\ UNCHANGED <<again, manifest, patch, patchLoaded>>
    /\ UNCHANGED restVars
    /\ UNCHANGED <<pc, source, replacements, updated, entries, idx, raised, before,
                   reloaded>>
    /\ UNCHANGED codecVars

\* repack_archive: the try statement and its finally clause
Repack ==
    /\ fpc = "loaded"
    /\ op = "repack"
    /\ replacements' = _collect_replacement_payloads(manifest.files, modified)
    /\ outputFile' = WrittenFile(RepackBody(loaded, manifest, modified))
    /\ failure' = RepackBody(loaded, manifest, modified).err
    /\ fpc' = IF failure' = NoError THEN "done" ELSE "failed"
    /\ mapping' = _release_archive_buffer(mapping)
    /\ UNCHANGED <<op, modified>>
    /\ UNCHANGED <<again, manifest, patch, patchLoaded>>
    /\ UNCHANGED restVars
    /\ UNCHANGED <<pc, source, loaded, updated, entries, idx, raised, before, reloaded>>
    /\ UNCHANGED codecVars

\* write_patch_archive: the try statement and its finally clause
WritePatch ==
    /\ fpc = "loaded"
    /\ op = "patch"
    /\ replacements' = _collect_replacement_payloads(manifest.files, modified)
    /\ outputFile' = WrittenFile(PatchBody(loaded, manifest, modified))
    /\ failure' = PatchBody(loaded, manifest, modified).err
    /\ fpc' = IF failure' = NoError THEN "done" ELSE "failed"
    /\ mapping' = _release_archive_buffer(mapping)
    /\ UNCHANGED <<op, modified>>
    /\ UNCHANGED <<again, manifest, patch, patchLoaded>>
    /\ UNCHANGED restVars
    /\ UNCHANGED <<pc, source, loaded, updated, entries, idx, raised, before, reloaded>>
    /\ UNCHANGED codecVars

FilesNext == CheckManifest \/ ReadArchive \/ LoadArchive \/ Repack \/ WritePatch

SpecFiles == FilesInit /\ [][FilesNext]_vars

\* C18: a repack or a patch writing that ends with an error leaves no output
\* file: every error is raised before the output file is created or written,
\* and the file exists only once the operation has completed.
C18_FailsAtomically ==
    /\ (fpc \in {"start", "checked", "read", "loaded", "failed"}) => outputFile = NoFile
    /\ (fpc = "failed") => failure # NoError

\* an archive was loaded and the operation then failed: on the wrapper kind
\* of the manifest, on an empty modified directory, or on payloads that do
\* not differ from the archive
C18_Witness ==
    /\ fpc = "failed"
    /\ loaded # NoResult
    /\ loaded.err = NoError
    /\ failure = RSFLParsingError
    /\ outputFile = NoFile
    /\ \/ op = "repack" /\ manifest.wrapper.kind # loaded.wrapper.kind
       \/ DOMAIN replacements = {}
       \/ op = "patch" /\ DOMAIN replacements # {}

\* C19: when an operation has ended, with or without an error, the memory map
\* of the archive file is not open any more.
C19_MapReleased ==
    (fpc \in {"failed", "done"}) => mapping # "open"

-----------------------------------------------------------------------------
(* The chunk scan, one iteration of its while loop at a time.              *)

\* most chunks of a scanned buffer
MaxChunks == 3

\* the chunk header CHUNK_HEADER.unpack_from reads at the cursor
HeaderAt(data, cursor) ==
    [offset |-> cursor, magic |-> Slice(data, cursor, cursor + 4),
     size |-> U32(data, cursor + 4), type1 |-> U32(data, cursor + 8),
     type2 |-> U32(data, cursor + 12)]

\* the return statement of the LFSR branch, after the unchecked unpack_from
ScanLfsr(data, h) ==
    IF h.offset + 16 + RSFL_CHUNK_HEADER_SIZE > Len(data)
    THEN ScanError(StructError, "unpack_from requires a buffer of at least 20 bytes")
    ELSE IF U32(data, h.offset + 16) # RSFL_INNER_MAGIC
    THEN ScanError(RSFLParsingError, "corrupted RSFL inner header")
    ELSE [err |-> NoError, msg |-> "", layout |-> "rsfl",
          chunks |-> <<[offset |-> h.offset, chunk_size |-> h.size,
                        type1 |-> h.type1, type2 |-> h.type2,
                        rsfl |-> [inner_size |-> U32(data, h.offset + 20),
                                  type1 |-> U32(data, h.offset + 24),
                                  type2 |-> U32(data, h.offset + 28),
                                  entry_count |-> U32(data, h.offset + 32)]]>>]

\* the dictionary the RSCF branch appends to rscf_chunks
ScanRscf(data, h) ==
    [offset |-> h.offset, chunk_size |-> h.size, type1 |-> h.type1, type2 |-> h.type2,
     rscf |-> [version |-> U32(data, h.offset + 16),
               data_offset |-> U32(data, h.offset + 20),
               data_span |-> U32(data, h.offset + 24)]]

\* the statements after the while loop
ScanEnd(chunks) ==
    IF chunks # <<>>
    THEN [err |-> NoError, msg |-> "", layout |-> "rscf", chunks |-> chunks]
    ELSE ScanError(RSFLParsingError, "unable to locate RS controlled chunks")

\* an iteration that treats the LFSR tag as any other tag
ScanOutcomeSkipsLfsr(data, h) ==
    IF h.size = 0
    THEN ScanError(RSFLParsingError, "encountered zero-sized chunk while scanning")
    ELSE IF h.magic = TAG_RSCF /\ h.offset + 16 + 12 > Len(data)
    THEN ScanError(RSFLParsingError, "truncated RSCF header")
    ELSE NoResult

\* what one iteration returns or raises, NoResult when the loop goes on
ScanOutcome(data, h) ==
    IF h.size = 0
    THEN ScanError(RSFLParsingError, "encountered zero-sized chunk while scanning")
    ELSE IF h.magic = TAG_LFSR THEN ScanLfsr(data, h)
    ELSE IF h.magic = TAG_RSCF /\ h.offset + 16 + 12 > Len(data)
    THEN ScanError(RSFLParsingError, "truncated RSCF header")
    ELSE NoResult

\* cursor += size, without it an iteration that goes on leaves the cursor
CursorKept(cursor, size) == cursor

CursorAfter(cursor, size) == cursor + size

\* chunks of a scanned buffer: other tags with sizes 16 and 20, a declared
\* size of 4 (smaller than the header), a declared size of 0, an RSCF chunk,
\* an RSCF chunk header with a declared size of 4 (its 12-byte record is what
\* follows), an RSCF header cut short, an LFSR
\* chunk, an LFSR chunk with another inner magic, an LFSR header cut short,
\* and five bytes that are no header
ScanPieces ==
    {OtherChunk(16, 0), OtherChunk(20, 0),
     <<88, 88, 88, 88>> \o PackU32(4) \o PackU32(12) \o PackU32(0),
     <<88, 88, 88, 88>> \o PackU32(0) \o PackU32(0) \o PackU32(0),
     RscfChunk([name |-> NameA, data_offset |-> 0, gap |-> 0, span |-> 4, tail |-> 0], 0),
     TAG_RSCF \o PackU32(4) \o PackU32(12) \o PackU32(0),
     TAG_RSCF \o PackU32(24) \o PackU32(1) \o PackU32(2) \o PackU32(5) \o PackU32(0),
     TAG_LFSR \o PackU32(36) \o PackU32(1) \o PackU32(2) \o PackU32(RSFL_INNER_MAGIC)
         \o PackU32(20) \o PackU32(3) \o PackU32(4) \o PackU32(0),
     TAG_LFSR \o PackU32(36) \o PackU32(1) \o PackU32(2) \o PackU32(7)
         \o PackU32(20) \o PackU32(3) \o PackU32(4) \o PackU32(0),
     TAG_LFSR \o PackU32(36) \o PackU32(1) \o PackU32(2) \o PackU32(RSFL_INNER_MAGIC),
     <<9, 9, 9, 9, 9>>}

RECURSIVE ScanBodies(_)
ScanBodies(n) ==
    IF n = 0 THEN {<<>>}
    ELSE ScanBodies(n - 1)
         \cup {b \o c : b \in ScanBodies(n - 1), c \in ScanPieces}

ScanBuffers ==
    {ASURA_MAGIC \o b : b \in ScanBodies(MaxChunks)}
    \cup {<<82, 73, 70, 70, 1, 2, 3, 4>> \o b : b \in ScanBodies(1)}

ScanInit ==
    /\ scanPc = "start"
    /\ scanData \in ScanBuffers
    /\ scanCursor = 0
    /\ scanChunks = <<>>
    /\ scanVisited = <<>>
    /\ scanResult = NoResult
    /\ EngineIdle
    /\ CodecIdle
    /\ again = NoResult
    /\ PatchIdle
    /\ FilesIdle
    /\ ParseIdle
    /\ SaveIdle

\* the signature check and the initialisation of the cursor
ScanBegin ==
    /\ scanPc = "start"
    /\ IF StartsWith(scanData, ASURA_MAGIC)
       THEN /\ scanPc' = "scanning"
            /\ scanCursor' = Len(ASURA_MAGIC)
            /\ scanResult' = scanResult
       ELSE /\ scanPc' = "failed"
            /\ scanCursor' = scanCursor
            /\ scanResult' = ScanError(RSFLParsingError, "file is not an Asura archive")
    /\ UNCHANGED <<scanData, scanChunks, scanVisited>>
    /\ UNCHANGED <<engineVars, codecVars, again, patchVars, fileVars>>
    /\ UNCHANGED <<parseVars, saveVars>>

\* one iteration of the while loop
ScanStep ==
    /\ scanPc = "scanning"
    /\ scanCursor + CHUNK_HEADER_SIZE <= Len(scanData)
    /\ scanVisited' = Append(scanVisited, HeaderAt(scanData, scanCursor))
    /\ scanResult' = ScanOutcome(scanData, HeaderAt(scanData, scanCursor))
    /\ scanPc' = IF scanResult' = NoResult THEN "scanning"
                 ELSE IF scanResult'.err = NoError THEN "done" ELSE "failed"
    /\ scanCursor' = IF scanResult' = NoResult
                     THEN CursorAfter(scanCursor, HeaderAt(scanData, scanCursor).size)
                     ELSE scanCursor
    /\ scanChunks' = IF scanResult' = NoResult
                        /\ HeaderAt(scanData, scanCursor).magic = TAG_RSCF
                     THEN Append(scanChunks,
                                 ScanRscf(scanData, HeaderAt(scanData, scanCursor)))
                     ELSE scanChunks
    /\ UNCHANGED scanData
    /\ UNCHANGED <<engineVars, codecVars, again, patchVars, fileVars>>
    /\ UNCHANGED <<parseVars, saveVars>>

\* the while condition is false: the statements after the loop
ScanFinish ==
    /\ scanPc = "scanning"
    /\ scanCursor + CHUNK_HEADER_SIZE > Len(scanData)
    /\ scanResult' = ScanEnd(scanChunks)
    /\ scanPc' = IF scanResult'.err = NoError THEN "done" ELSE "failed"
    /\ UNCHANGED <<scanData, scanCursor, scanChunks, scanVisited>>
    /\ UNCHANGED <<engineVars, codecVars, again, patchVars, fileVars>>
    /\ UNCHANGED <<parseVars, saveVars>>

ScanNext == ScanBegin \/ ScanStep \/ ScanFinish

SpecScan == ScanInit /\ [][ScanNext]_vars

\* the scheduler runs the loop: an enabled step is eventually taken
SpecScanFair == SpecScan /\ WF_vars(ScanNext)

\* the iterations of the loop give what _scan_for_rsfl gives
ScanAgrees ==
    (scanPc \in {"done", "failed"}) => scanResult = _scan_for_rsfl(scanData)

-----------------------------------------------------------------------------
(* Properties of the chunk scan.                                           *)

ScanEnded == scanPc \in {"done", "failed"} /\ scanVisited # <<>>
LastVisited == scanVisited[Len(scanVisited)]

\* the walk has reached an LFSR chunk (a declared size of 0 is fatal first)
ReachedLfsr == ScanEnded /\ LastVisited.magic = TAG_LFSR /\ LastVisited.size # 0

\* the walk has ended at the end of the buffer
WalkedToEnd ==
    /\ scanPc \in {"done", "failed"}
    /\ StartsWith(scanData, ASURA_MAGIC)
    /\ scanCursor + CHUNK_HEADER_SIZE > Len(scanData)

\* the RSCF headers the walk has read, in the order read
VisitedRscf == SelectSeq(scanVisited, LAMBDA h : h.magic = TAG_RSCF)

\* C21: when the walk reaches an LFSR chunk the scan takes the RSFL branch
\* whatever RSCF chunks it has seen: it returns the rsfl layout with that one
\* chunk, or fails on that chunk's inner header; when the walk ends without
\* an LFSR chunk the layout is rscf with every RSCF chunk seen, in ascending
\* offset order, if there is one, and the scan fails with 'unable to locate RS
\* controlled chunks' if there is none.
C21_LayoutSelection ==
    /\ ReachedLfsr =>
          IF /\ LastVisited.offset + 16 + RSFL_CHUNK_HEADER_SIZE <= Len(scanData)
             /\ U32(scanData, LastVisited.offset + 16) = RSFL_INNER_MAGIC
          THEN /\ scanResult.err = NoError
               /\ scanResult.layout = "rsfl"
               /\ Len(scanResult.chunks) = 1
               /\ scanResult.chunks[1].offset = LastVisited.offset
          ELSE /\ scanResult.err # NoError
               /\ scanResult.msg \in {"corrupted RSFL inner header",
                                      "unpack_from requires a buffer of at least 20 bytes"}
    /\ (WalkedToEnd /\ VisitedRscf # <<>>) =>
          /\ scanResult.err = NoError
          /\ scanResult.layout = "rscf"
          /\ Len(scanResult.chunks) = Len(VisitedRscf)
          /\ \A i \in 1..Len(VisitedRscf) :
                scanResult.chunks[i].offset = VisitedRscf[i].offset
          /\ \A i \in 1..(Len(VisitedRscf) - 1) :
                scanResult.chunks[i].offset < scanResult.chunks[i + 1].offset
    /\ (WalkedToEnd /\ VisitedRscf = <<>>) =>
          /\ scanResult.err = RSFLParsingError
          /\ scanResult.msg = "unable to locate RS controlled chunks"
    /\ (scanPc = "done" /\ scanResult.layout = "rscf") => WalkedToEnd

\* an LFSR chunk was reached after two RSCF chunks and a chunk of another tag
C21_Witness ==
    /\ ReachedLfsr
    /\ scanResult.err = NoError
    /\ scanResult.layout = "rsfl"
    /\ Len(VisitedRscf) >= 1
    /\ Len(scanVisited) > Len(VisitedRscf) + 1

-----------------------------------------------------------------------------
(* The RSCF parser on one chunk: the buffer is the signature, one RSCF     *)
(* chunk and what follows it; chunk_info is what the scan records for the  *)
(* chunk.                                                                  *)

ParseNames == {NameA, <<97, 98, 99, 100, 101>>}
ParseDataOffsets == {0, 4, 8, 16777216, 16777220}
ParseSpans == {4 * k : k \in 0..MaxHalfLen}
ParseBodies == {0, 4, 8}
\* the declared chunk size less the bytes the chunk has
ParseDeclared == {-4, 0, 4}
ParseTrailers == {<<>>, Filler(40, 8)}

ParseBuffer(name, data_offset, data_span, body, declared, trailer) ==
    ASURA_MAGIC \o TAG_RSCF
    \o PackU32(CHUNK_HEADER_SIZE + 12 + Len(PadName(name)) + body + declared)
    \o PackU32(1) \o PackU32(2)
    \o PackU32(5) \o PackU32(data_offset) \o PackU32(data_span)
    \o PadName(name) \o Filler(0, body) \o trailer

ParseInit ==
    /\ parsePc = "scanned"
    /\ \E name \in ParseNames, data_offset \in ParseDataOffsets, data_span \in ParseSpans,
          body \in ParseBodies, declared \in ParseDeclared, trailer \in ParseTrailers :
          parseData = ParseBuffer(name, data_offset, data_span, body, declared, trailer)
    /\ parseChunk = ScanRscf(parseData, HeaderAt(parseData, Len(ASURA_MAGIC)))
    /\ parsed = NoResult
    /\ EngineIdle
    /\ CodecIdle
    /\ again = NoResult
    /\ PatchIdle
    /\ FilesIdle
    /\ ScanIdle
    /\ SaveIdle

\* entries.extend(_parse_rscf_entries(data, chunk))
ParseChunk ==
    /\ parsePc = "scanned"
    /\ parsed' = _parse_rscf_entries(parseData, parseChunk)
    /\ parsePc' = IF parsed'.err = NoError THEN "parsed" ELSE "failed"
    /\ UNCHANGED <<parseData, parseChunk>>
    /\ UNCHANGED <<engineVars, codecVars, again, patchVars, fileVars, scanVars,
                   saveVars>>

ParseNext == ParseChunk

SpecParse == ParseInit /\ [][ParseNext]_vars

\* the three candidates in their fixed order, and the test the claim states
ParseStringEnd == PaddedStringEnd(parseData, parseChunk.offset + 16 + 12)
ParseChunkEnd == parseChunk.offset + parseChunk.chunk_size
FirstCandidate == ParseStringEnd + parseChunk.rscf.data_offset
MaskedCandidate == ParseStringEnd + (parseChunk.rscf.data_offset % 16777216)
EndCandidate == ParseChunkEnd - parseChunk.rscf.data_span

Qualifies(candidate) ==
    /\ candidate >= ParseStringEnd
    /\ candidate + parseChunk.rscf.data_span <= ParseChunkEnd
    /\ candidate + parseChunk.rscf.data_span <= Len(parseData)

ExpectedOffset ==
    IF Qualifies(FirstCandidate) THEN FirstCandidate
    ELSE IF Qualifies(MaskedCandidate) THEN MaskedCandidate
    ELSE IF Qualifies(EndCandidate) THEN EndCandidate
    ELSE None

\* C22: the payload offset of a parsed RSCF entry is the first of
\* string_end + data_offset, string_end + (data_offset & 0x00FFFFFF) and
\* chunk_end - data_span that is >= string_end and ends within the chunk and
\* the buffer; parsing fails with 'RSCF payload exceeds chunk bounds' when
\* none does; so string_end <= offset and offset + size <= chunk_end and
\* <= buffer length.
C22_PayloadCandidate ==
    /\ (parsePc = "parsed") =>
          /\ ExpectedOffset # None
          /\ parsed.entries[1].offset = ExpectedOffset
          /\ parsed.entries[1].size = parseChunk.rscf.data_span
          /\ ParseStringEnd <= parsed.entries[1].offset
          /\ parsed.entries[1].offset + parsed.entries[1].size <= ParseChunkEnd
          /\ parsed.entries[1].offset + parsed.entries[1].size <= Len(parseData)
    /\ (parsePc = "failed") =>
          /\ ExpectedOffset = None
          /\ parsed.err = RSFLParsingError
          /\ parsed.msg = "RSCF payload exceeds chunk bounds"

\* the first two candidates differ and neither qualifies, the third does
C22_Witness ==
    /\ parsePc = "parsed"
    /\ FirstCandidate # MaskedCandidate
    /\ ~Qualifies(FirstCandidate)
    /\ ~Qualifies(MaskedCandidate)
    /\ EndCandidate \notin {FirstCandidate, MaskedCandidate}
    /\ parsed.entries[1].offset = EndCandidate

-----------------------------------------------------------------------------
(* Properties of the container codec.                                      *)

\* the sub-chunks of an AsuraZbb stream up to its end: a zero
\* chunk_compressed, the bytes running out, or total_size reached; each with
\* the chunk_uncompressed its sub-header declares and the length its stream
\* decompresses to
RECURSIVE ZbbSubChunks(_, _, _, _)
ZbbSubChunks(data, cursor, produced, total_size) ==
    IF cursor + 8 > Len(data) \/ U32(data, cursor) = 0 THEN <<>>
    ELSE LET stream == Slice(data, cursor + 8, cursor + 8 + U32(data, cursor))
             z == zlib_decompress(stream)
         IN  IF Len(stream) # U32(data, cursor) \/ ~z.ok THEN <<>>
             ELSE <<[declared |-> U32(data, cursor + 4), actual |-> Len(z.data),
                     data |-> z.data]>>
                  \o (IF total_size # 0 /\ produced + Len(z.data) >= total_size
                      THEN <<>>
                      ELSE ZbbSubChunks(data, cursor + 8 + U32(data, cursor),
                                        produced + Len(z.data), total_size))

IsZbb == StartsWith(container, ASURA_ZBB_MAGIC) /\ Len(container) >= 16
StoredSubChunks == ZbbSubChunks(container, 16, 0, U32(container, 12))

\* C23 as stated: unwrapping an AsuraZbb container fails with the archive
\* error whenever a sub-chunk's decompressed length differs from the
\* chunk_uncompressed of its sub-header, for every declared value.
C23_EveryDeclaredValue ==
    (cpc \in {"unwrapped", "rejected"} /\ IsZbb
     /\ \E i \in 1..Len(StoredSubChunks) :
           StoredSubChunks[i].actual # StoredSubChunks[i].declared)
        => unwrapped.err = RSFLParsingError

\* C23 amended: unwrapping an AsuraZbb container fails with the archive error
\* whenever a sub-chunk declares a non-zero chunk_uncompressed that differs
\* from its decompressed length; a sub-header that declares 0 is accepted
\* with any decompressed length.
C23_NonZeroDeclared ==
    /\ (cpc \in {"unwrapped", "rejected"} /\ IsZbb
        /\ \E i \in 1..Len(StoredSubChunks) :
              /\ StoredSubChunks[i].declared # 0
              /\ StoredSubChunks[i].actual # StoredSubChunks[i].declared)
          => /\ unwrapped.err = RSFLParsingError
             /\ unwrapped.msg
                  = "decompressed chunk size does not match the value stored in the header"
    /\ (cpc = "unwrapped" /\ IsZbb) =>
          \A i \in 1..Len(StoredSubChunks) :
             \/ StoredSubChunks[i].declared = 0
             \/ StoredSubChunks[i].actual = StoredSubChunks[i].declared

\* a container was rejected for its last sub-chunk, after sub-chunks that
\* match their declarations
C23_Witness ==
    /\ cpc = "rejected"
    /\ IsZbb
    /\ Len(StoredSubChunks) >= 2
    /\ StoredSubChunks[1].actual = StoredSubChunks[1].declared
    /\ StoredSubChunks[1].actual > 0
    /\ StoredSubChunks[Len(StoredSubChunks)].actual
          # StoredSubChunks[Len(StoredSubChunks)].declared
    /\ unwrapped.err = RSFLParsingError

IsZlb == StartsWith(container, ASURA_ZLB_MAGIC) /\ Len(container) >= 20

\* the container stores the compressed payload p behind its 20-byte header
StoresPayload(p) ==
    Slice(container, 20, 20 + Len(zlib_compress(p))) = zlib_compress(p)

\* C24 as stated: an AsuraZlb container whose decompressed length disagrees
\* with the header's expected_size unwraps to the full payload, and the
\* returned wrapper's expected_size is the decompressed length, for every
\* stored expected_size.
C24_EveryStoredValue ==
    \A p \in StoredPayloads :
       (cpc \in {"unwrapped", "rejected"} /\ IsZlb /\ StoresPayload(p)
        /\ U32(container, 16) # Len(p))
          => /\ unwrapped.err = NoError
             /\ unwrapped.payload = p
             /\ unwrapped.wrapper.expected_size = Len(p)

\* C24 amended: such a container unwraps to the full payload; the returned
\* wrapper's expected_size is the decompressed length when the stored value
\* is not 0, and 0 when the stored value is 0.
C24_NonZeroStored ==
    \A p \in StoredPayloads :
       (cpc \in {"unwrapped", "rejected"} /\ IsZlb /\ StoresPayload(p)
        /\ U32(container, 16) # Len(p))
          => /\ unwrapped.err = NoError
             /\ unwrapped.payload = p
             /\ unwrapped.wrapper.kind = "zlb"
             /\ unwrapped.wrapper.expected_size
                  = IF U32(container, 16) = 0 THEN 0 ELSE Len(p)

\* a header that stores a non-zero expected_size other than the payload's
\* length, and a compressed_size that is not the stream's
C24_Witness ==
    /\ cpc = "unwrapped"
    /\ IsZlb
    /\ U32(container, 16) # 0
    /\ U32(container, 16) # Len(unwrapped.payload)
    /\ U32(container, 12) # Len(zlib_compress(unwrapped.payload))
    /\ Len(unwrapped.payload) > Len(ASURA_MAGIC)
    /\ unwrapped.wrapper.expected_size = Len(unwrapped.payload)

\* the sub-chunks of the wrapped container, read to the end of its bytes
WrappedSubChunks == ZbbSubChunks(wrapped.bytes, 16, 0, 0)

RECURSIVE SubChunkBytes(_, _)
SubChunkBytes(subs, n) ==
    IF n = 0 THEN <<>> ELSE SubChunkBytes(subs, n - 1) \o subs[n].data

WrappedZbb ==
    /\ cpc \in {"wrapped", "reloaded"}
    /\ unwrapped.wrapper.kind = "zbb"
    /\ wrapped.err = NoError

\* the i-th recorded size, the last one once the list is exhausted
RecordedSize(i) ==
    IF i <= Len(unwrapped.wrapper.chunk_sizes)
    THEN unwrapped.wrapper.chunk_sizes[i]
    ELSE unwrapped.wrapper.chunk_sizes[Len(unwrapped.wrapper.chunk_sizes)]

\* the size the i-th sub-chunk is cut to: a recorded size of 0 stands for the
\* last recorded size, or for the payload length when that is 0 too; an
\* empty list stands for the payload length
EffectiveSize(i) ==
    IF unwrapped.wrapper.chunk_sizes = <<>> THEN Len(newPayload)
    ELSE IF RecordedSize(i) > 0 THEN RecordedSize(i)
    ELSE IF RecordedSize(Len(unwrapped.wrapper.chunk_sizes)) # 0
    THEN RecordedSize(Len(unwrapped.wrapper.chunk_sizes))
    ELSE Len(newPayload)

\* what every zbb wrap gives: non-empty consecutive sub-chunks that make up
\* the payload, each declaring its length, and total_size = payload length
ZbbWellFormed ==
    /\ StartsWith(wrapped.bytes, ASURA_ZBB_MAGIC)
    /\ U32(wrapped.bytes, 12) = Len(newPayload)
    /\ SubChunkBytes(WrappedSubChunks, Len(WrappedSubChunks)) = newPayload
    /\ \A i \in 1..Len(WrappedSubChunks) :
          /\ WrappedSubChunks[i].actual > 0
          /\ WrappedSubChunks[i].declared = WrappedSubChunks[i].actual

\* C25 as stated: the i-th sub-chunk has the i-th recorded size (the last
\* recorded size once the list is exhausted), truncated at the end of the
\* payload, for every size list unwrap records; the sub-chunks are non-empty,
\* consecutive, and total_size is the payload length.
C25_RecordedSizes ==
    (WrappedZbb /\ unwrapped.wrapper.chunk_sizes # <<>>) =>
       /\ ZbbWellFormed
       /\ \A i \in 1..Len(WrappedSubChunks) :
             WrappedSubChunks[i].actual
                = Min(RecordedSize(i),
                      Len(newPayload) - Len(SubChunkBytes(WrappedSubChunks, i - 1)))

\* C25 amended: the same with the i-th size taken as the last recorded size
\* where the recorded size is 0 (the payload length where the last is 0 too)
\* and as the payload length where the list is empty.
C25_EffectiveSizes ==
    WrappedZbb =>
       /\ ZbbWellFormed
       /\ \A i \in 1..Len(WrappedSubChunks) :
             WrappedSubChunks[i].actual
                = Min(EffectiveSize(i),
                      Len(newPayload) - Len(SubChunkBytes(WrappedSubChunks, i - 1)))

\* a grown payload is cut with a list that has a size of 0 in it and is
\* exhausted before the payload ends
C25_Witness ==
    /\ WrappedZbb
    /\ Len(newPayload) > Len(unwrapped.payload)
    /\ \E i \in 1..Len(unwrapped.wrapper.chunk_sizes) :
          unwrapped.wrapper.chunk_sizes[i] = 0
    /\ Len(WrappedSubChunks) > Len(unwrapped.wrapper.chunk_sizes)
    /\ WrappedSubChunks[Len(WrappedSubChunks)].actual
          < EffectiveSize(Len(WrappedSubChunks))

-----------------------------------------------------------------------------
(* Termination of the chunk scan.                                          *)

\* C26: the chunk scan terminates on every buffer: an iteration that does
\* not end the scan advances the cursor by the chunk's declared size, which
\* is at least 1 (also where it is smaller than the 16-byte header), a
\* declared size of 0 raises the archive error, and the scan ends with a
\* result or an error.
C26_ScanTerminates ==
    /\ [][(scanPc = "scanning" /\ scanPc' = "scanning") =>
             /\ HeaderAt(scanData, scanCursor).size >= 1
             /\ scanCursor' = scanCursor + HeaderAt(scanData, scanCursor).size
             /\ scanCursor' > scanCursor]_vars
    /\ []((ScanEnded /\ LastVisited.size = 0) =>
             /\ scanPc = "failed"
             /\ scanResult.err = RSFLParsingError
             /\ scanResult.msg = "encountered zero-sized chunk while scanning")
    /\ <>(scanPc \in {"done", "failed"})

\* a scan ended after it passed a chunk with a declared size below the
\* header size and read a header that overlaps that chunk's header
C26_Witness ==
    /\ scanPc \in {"done", "failed"}
    /\ \E i \in 1..(Len(scanVisited) - 1) :
          /\ scanVisited[i].size < CHUNK_HEADER_SIZE
          /\ scanVisited[i + 1].offset < scanVisited[i].offset + CHUNK_HEADER_SIZE
    /\ Len(scanVisited) >= 3

-----------------------------------------------------------------------------
(* Replacement of an RSCF entry without chunk metadata.                    *)

LacksMetadata(entry) ==
    /\ entry.layout = "rscf"
    /\ (entry.chunk_offset = None \/ entry.header_offset = None)

\* the loop stands at a replaced RSCF entry without chunk metadata
AtLackingEntry ==
    /\ pc = "applying"
    /\ idx <= Len(entries)
    /\ entries[idx].relative_path \in DOMAIN replacements
    /\ LacksMetadata(entries[idx])

\* the loop has just raised on such an entry
RaisedOnLackingEntry ==
    /\ pc = "raised"
    /\ before # NoResult
    /\ LacksMetadata(before.entries[before.idx])

\* C27: a replacement for an RSCF entry without chunk_offset or header_offset
\* raises the archive error for a payload of every size, and the buffer and
\* every field of every entry are as they were when the entry was reached
C27_MissingMetadataRejected ==
    /\ AtLackingEntry =>
          LET r == ReplaceEntry(updated, entries, idx,
                                replacements[entries[idx].relative_path])
          IN  /\ r.err = RSFLParsingError
              /\ r.updated = updated
              /\ r.entries = entries
    /\ RaisedOnLackingEntry =>
          /\ raised = RSFLParsingError
          /\ updated = before.updated
          /\ entries = before.entries

\* the second entry lacks the metadata, its payload has another size than the
\* entry, and the first entry has been replaced before
C27_Witness ==
    /\ RaisedOnLackingEntry
    /\ before.idx = 2
    /\ Len(replacements[NameB]) # before.entries[2].size
    /\ entries[1] # loaded.entries[1]

-----------------------------------------------------------------------------
(* Order of the replacements of an RSCF archive.                           *)

ReverseOrder(s) == [i \in 1..Len(s) |-> s[Len(s) + 1 - i]]

\* the batch applied to the loaded archive with the entries in reverse order
ReverseBatch == _apply_replacements(loaded.data, ReverseOrder(loaded.entries),
                                    replacements)

\* the chunks of the loaded entries are pairwise disjoint
DisjointChunks ==
    \A i, j \in 1..Len(loaded.entries) :
       i < j => \/ loaded.entries[i].chunk_offset + loaded.entries[i].chunk_size
                      <= loaded.entries[j].chunk_offset
                \/ loaded.entries[j].chunk_offset + loaded.entries[j].chunk_size
                      <= loaded.entries[i].chunk_offset

\* C28: for an RSCF archive with disjoint chunks the batch applied in archive
\* order and the batch applied in reverse order end with the same buffer and,
\* entry by entry, with the same value of every field
C28_OrderIndependent ==
    (pc = "applied" /\ IsRscf /\ DisjointChunks) =>
       /\ ReverseBatch.err = NoError
       /\ ReverseBatch.updated = updated
       /\ ReverseBatch.entries = ReverseOrder(entries)

\* two distinct entries were replaced by payloads of two other sizes, so each
\* replacement moved the other entry or was moved by it
C28_Witness ==
    /\ pc = "applied"
    /\ IsRscf
    /\ DisjointChunks
    /\ Len(entries) = 2
    /\ DOMAIN replacements = {NameA, NameB}
    /\ entries[1].relative_path # entries[2].relative_path
    /\ entries[1].size # loaded.entries[1].size
    /\ entries[2].size # loaded.entries[2].size
    /\ entries[1].size # entries[2].size
    /\ entries[2].offset # loaded.entries[2].offset

-----------------------------------------------------------------------------
(* The caller's entry list after a batch that raised.                      *)

\* C29: when the batch raises the archive error, the entry list handed in by
\* the caller holds the field values it held before the call
C29_EntriesUntouchedOnError ==
    (pc = "raised" /\ raised = RSFLParsingError) => entries = loaded.entries

-----------------------------------------------------------------------------
(* Saving the patched archive from the GUI: save_patched_archive applies   *)
(* the queued replacements to a copy of the entries, wraps the result and  *)
(* starts a thread that writes the bytes in chunks; the GUI thread may set *)
(* the cancel event while the thread runs, and finalize runs on the GUI    *)
(* thread once the writer has returned.                                    *)

\* chunk_size of the writer, scaled down from 4 MiB
SaveChunkSize == 16

SaveWrappers == {[kind |-> "raw"], [kind |-> "zlb", unknown |-> 7]}

\* the file the save dialog's path names before the save: none, or another file
SaveOutputs == {NoFile, [exists |-> TRUE, bytes |-> <<1, 2, 3>>]}

\* an archive is open, and no, one or two textures have been imported
SaveInit ==
    /\ savePc = "ready"
    /\ \E es \in DirectEntryLists, m \in ReplacementMaps, w \in SaveWrappers :
          gui = [archive_bytes |-> DirectBuffer, all_entries |-> es,
                 replacements |-> [path \in DOMAIN m |-> NewPayload(path, m[path])],
                 wrapper_info |-> w]
    /\ saveJob = NoJob
    /\ disk \in SaveOutputs
    /\ EngineIdle
    /\ CodecIdle
    /\ again = NoResult
    /\ PatchIdle
    /\ FilesIdle
    /\ ScanIdle
    /\ ParseIdle

\* save_patched_archive up to thread.start(): staged_entries is a deep copy, so
\* the replacement engine changes the copy and not all_entries
SaveBegin ==
    /\ savePc = "ready"
    /\ IF DOMAIN gui.replacements = {}
       THEN /\ savePc' = "declined"
            /\ UNCHANGED saveJob
       ELSE LET r == _apply_replacements(gui.archive_bytes, gui.all_entries,
                                         gui.replacements)
                w == _wrap_asura_container(r.updated, gui.wrapper_info)
            IN  IF r.err # NoError \/ w.err # NoError
                THEN /\ savePc' = "rejected"
                     /\ UNCHANGED saveJob
                ELSE /\ savePc' = "writing"
                     /\ saveJob' = [status |-> "success", at |-> "open",
                                    previous |-> gui, output_before |-> disk,
                                    new_archive_bytes |-> r.updated,
                                    updated_entries |-> r.entries,
                                    wrapped |-> w.bytes, cancel_event |-> FALSE,
                                    start |-> 0, written |-> 0, installs |-> 0]
    /\ UNCHANGED <<gui, disk>>
    /\ UNCHANGED <<engineVars, codecVars, again, patchVars, fileVars, scanVars, parseVars>>

\* request_cancel, on the GUI thread, while the progress window exists
RequestCancel ==
    /\ savePc = "writing"
    /\ ~saveJob.cancel_event
    /\ saveJob' = [saveJob EXCEPT !.cancel_event = TRUE]
    /\ UNCHANGED <<savePc, gui, disk>>
    /\ UNCHANGED <<engineVars, codecVars, again, patchVars, fileVars, scanVars, parseVars>>

\* the except clause of _write_bytes_in_chunks: path.unlink(), return "error"
WriterFailed(job) == [job EXCEPT !.status = "error", !.at = "returned"]

\* path.open("wb"): the file is created or truncated, or the open fails
WriterOpen ==
    /\ savePc = "writing"
    /\ saveJob.at = "open"
    /\ \E ok \in BOOLEAN :
          IF ok
          THEN /\ disk' = [exists |-> TRUE, bytes |-> <<>>]
               /\ saveJob' = [saveJob EXCEPT !.at = "loop"]
          ELSE /\ disk' = NoFile
               /\ saveJob' = WriterFailed(saveJob)
    /\ UNCHANGED <<savePc, gui>>
    /\ UNCHANGED <<engineVars, codecVars, again, patchVars, fileVars, scanVars, parseVars>>

\* one iteration of for start in range(0, total, chunk_size): the cancel event
\* is looked at, then the chunk is written, or the write fails
WriterChunk ==
    /\ savePc = "writing"
    /\ saveJob.at = "loop"
    /\ saveJob.start < Len(saveJob.wrapped)
    /\ IF saveJob.cancel_event
       THEN /\ saveJob' = [saveJob EXCEPT !.status = "cancelled", !.at = "after"]
            /\ UNCHANGED disk
       ELSE LET stop == Min(saveJob.start + SaveChunkSize, Len(saveJob.wrapped))
                chunk == SubSeq(saveJob.wrapped, saveJob.start + 1, stop)
            IN  \E ok \in BOOLEAN :
                   IF ok
                   THEN /\ disk' = [disk EXCEPT !.bytes = @ \o chunk]
                        /\ saveJob' = [saveJob EXCEPT
                                          !.written = @ + Len(chunk),
                                          !.start = @ + SaveChunkSize]
                   ELSE /\ disk' = NoFile
                        /\ saveJob' = WriterFailed(saveJob)
    /\ UNCHANGED <<savePc, gui>>
    /\ UNCHANGED <<engineVars, codecVars, again, patchVars, fileVars, scanVars, parseVars>>

\* the end of the with block: if status != "success": path.unlink(); return
WriterReturn ==
    /\ savePc = "writing"
    /\ \/ saveJob.at = "after"
       \/ saveJob.at = "loop" /\ saveJob.start >= Len(saveJob.wrapped)
    /\ disk' = IF saveJob.status # "success" THEN NoFile ELSE disk
    /\ saveJob' = [saveJob EXCEPT !.at = "returned"]
    /\ UNCHANGED <<savePc, gui>>
    /\ UNCHANGED <<engineVars, codecVars, again, patchVars, fileVars, scanVars, parseVars>>

\* finalize(status, error), run by root.after on the GUI thread
Finalize ==
    /\ savePc = "writing"
    /\ saveJob.at = "returned"
    /\ IF saveJob.status = "success"
       THEN /\ gui' = [gui EXCEPT !.archive_bytes = saveJob.new_archive_bytes,
                                  !.all_entries = saveJob.updated_entries,
                                  !.replacements = <<>>]
            /\ saveJob' = [saveJob EXCEPT !.installs = @ + 1, !.at = "finalized"]
            /\ savePc' = "saved"
       ELSE /\ gui' = gui
            /\ saveJob' = [saveJob EXCEPT !.at = "finalized"]
            /\ savePc' = IF saveJob.status = "cancelled" THEN "cancelled" ELSE "failed"
    /\ UNCHANGED disk
    /\ UNCHANGED <<engineVars, codecVars, again, patchVars, fileVars, scanVars, parseVars>>

SaveNext ==
    SaveBegin \/ RequestCancel \/ WriterOpen \/ WriterChunk \/ WriterReturn \/ Finalize

SpecSave == SaveInit /\ [][SaveNext]_vars

-----------------------------------------------------------------------------
(* A save that is cancelled or fails.                                      *)

SaveEndedWithout == savePc \in {"cancelled", "failed"}

\* the cancel event is seen at the head of an iteration only: what was written
\* when the writer stopped is a whole number of chunks, short of the total
CancelBetweenChunks ==
    (savePc = "writing" /\ saveJob.status = "cancelled") =>
       /\ saveJob.written % SaveChunkSize = 0
       /\ saveJob.written < Len(saveJob.wrapped)
       /\ saveJob.cancel_event

\* the writer has returned "cancelled" or "error": no file at the output path
SaveLeavesNoFile ==
    (\/ savePc = "writing" /\ saveJob.at = "returned" /\ saveJob.status # "success"
     \/ SaveEndedWithout) => ~disk.exists

\* no lasting effect on the output path
SaveOutputAsBefore == SaveEndedWithout => disk = saveJob.output_before

\* archive_bytes, all_entries and the queued replacements stay
SaveGuiKept ==
    (savePc = "writing" \/ SaveEndedWithout) => gui = saveJob.previous

\* only success installs, once, and then the file holds all bytes
SaveInstallsOnce ==
    /\ savePc \in {"writing", "cancelled", "failed"} => saveJob.installs = 0
    /\ savePc = "saved" =>
          /\ saveJob.installs = 1
          /\ saveJob.status = "success"
          /\ disk = [exists |-> TRUE, bytes |-> saveJob.wrapped]
          /\ gui.archive_bytes = saveJob.new_archive_bytes
          /\ gui.all_entries = saveJob.updated_entries
          /\ DOMAIN gui.replacements = {}

====
